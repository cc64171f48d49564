---------------------------- MODULE AccessRules ----------------------------
(***************************************************************************)
(* Whom the gate admits: checkValidate, checkZone and checkDate            *)
(* (maindelegator.cpp) and the comparisons of dates (tools/date.cpp), over *)
(* the days that pass at one gate for one employee.                        *)
(*                                                                         *)
(* A record without a UTYPE has an uninitialised one, which may happen to  *)
(* be "C".  A date whose element was empty has the fields 0.               *)
(***************************************************************************)
EXTENDS Integers

CONSTANTS Years, Months, Days,
          Locations,  \* values of App::DV_LOC
          ZoneCodes,  \* values of ZONE_CD
          AuthLists,  \* values of App::AUTH_CD, each the set of its codes
          NoDate

(* Two decimal digits are what a date's text has for a month and a day.    *)
Dates == [m_year : Years, m_month : Months, m_day : Days]

ASSUME DatesAssumption == Years \subseteq Nat /\ Months \subseteq 0 .. 99 /\ Days \subseteq 0 .. 99
ASSUME NoDateAssumption == NoDate \notin Dates

VARIABLES
  m_sDvLoc, m_sAuthCd,  \* the gate's settings
  ei,                   \* the employee's record
  today,                \* the gate's clock
  granted,              \* the answer to today's card: "unasked", "yes" or "no"
  stay                  \* history: "before", "in" or "over": admitted once, then refused
settings == <<m_sDvLoc, m_sAuthCd>>
vars == <<settings, ei, today, granted, stay>>

-----------------------------------------------------------------------------
(* Mutants of the comparisons: the month of another year decides; the last *)
(* day itself is too late.                                                 *)
Greater_AnyYear(lh, rh) ==
  \/ lh.m_year > rh.m_year
  \/ lh.m_month > rh.m_month
  \/ lh.m_year = rh.m_year /\ lh.m_month = rh.m_month /\ lh.m_day > rh.m_day
Less_OrEqual(lh, rh) ==
  \/ lh.m_year < rh.m_year
  \/ lh.m_year = rh.m_year /\ lh.m_month < rh.m_month
  \/ lh.m_year = rh.m_year /\ lh.m_month = rh.m_month /\ lh.m_day <= rh.m_day

(* The operators > and < of Date.                                          *)
Greater(lh, rh) ==
  \/ lh.m_year > rh.m_year
  \/ lh.m_year = rh.m_year /\ lh.m_month > rh.m_month
  \/ lh.m_year = rh.m_year /\ lh.m_month = rh.m_month /\ lh.m_day > rh.m_day
Less(lh, rh) ==
  \/ lh.m_year < rh.m_year
  \/ lh.m_year = rh.m_year /\ lh.m_month < rh.m_month
  \/ lh.m_year = rh.m_year /\ lh.m_month = rh.m_month /\ lh.m_day < rh.m_day

checkDate(start, end, day) ==
  /\ start # NoDate
  /\ ~Greater(start, day)
  /\ end # NoDate => ~Less(end, day)

(* The locations that a zone code opens by the table.                      *)
OpenedBy(sAuth) ==
  CASE sAuth = "0002" -> {"0001", "0002", "0003"}
    [] sAuth \in {"0003", "0004"} -> {"0001", "0004", "0005"}
    [] sAuth = "0005" -> {"0001"}
    [] sAuth = "0006" -> {"0001", "0003", "0006"}
    [] sAuth = "0007" -> {"0001", "0003", "0004", "0005"}
    [] sAuth = "0008" -> {"0001", "0003"}
    [] sAuth = "0009" -> {"0001", "0002", "0003", "0004", "0005"}
    [] sAuth = "0010" -> {"0001", "0003", "0004", "0005", "0006"}
    [] OTHER -> {}

checkZone(sAuth) ==
  \/ sAuth = "" /\ m_sDvLoc = "0001"
  \/ sAuth = "0001"
  \/ IF m_sAuthCd # {} THEN sAuth \in m_sAuthCd ELSE m_sDvLoc \in OpenedBy(sAuth)

(* utype is what the field holds.                                          *)
checkValidate(utype) ==
  /\ ei.in_out_gb = "0002"
  /\ utype # "C" => checkZone(ei.zone_code) /\ checkDate(ei.ent_co_ymd, ei.rtr_co_ymd, today)

-----------------------------------------------------------------------------
Employees == [in_out_gb : {"0001", "0002", "0003", "other"},
              utype : {"C", "other", "missing"},
              zone_code : ZoneCodes,
              ent_co_ymd : Dates \cup {NoDate},
              rtr_co_ymd : Dates \cup {NoDate}]

Init == /\ m_sDvLoc \in Locations /\ m_sAuthCd \in AuthLists
        /\ ei \in Employees
        /\ today \in Dates
        /\ granted = "unasked"
        /\ stay = "before"

(* The employee's card is read.                                            *)
Card ==
  /\ granted = "unasked"
  /\ \E utype \in IF ei.utype = "missing" THEN {"C", "other"} ELSE {ei.utype} :
        granted' = IF checkValidate(utype) THEN "yes" ELSE "no"
  /\ stay' = CASE stay = "before" /\ granted' = "yes" -> "in"
               [] stay = "in" /\ granted' = "no" -> "over"
               [] OTHER -> stay
  /\ UNCHANGED <<settings, ei, today>>

(* The days as the calendar counts them.                                   *)
Number(date) == 10000 * date.m_year + 100 * date.m_month + date.m_day

LaterDay ==
  /\ today' \in Dates /\ Number(today') > Number(today)
  /\ granted' = "unasked"
  /\ UNCHANGED <<settings, ei, stay>>

(* getSeverTime sets the clock back.                                       *)
ClockSetBack ==
  /\ today' \in Dates /\ Number(today') < Number(today)
  /\ granted' = "unasked"
  /\ stay' = "before"
  /\ UNCHANGED <<settings, ei>>

Next == Card \/ LaterDay \/ ClockSetBack
Spec == Init /\ [][Next]_vars

-----------------------------------------------------------------------------
TypeOK ==
  /\ m_sDvLoc \in Locations /\ m_sAuthCd \in AuthLists
  /\ ei \in Employees
  /\ today \in Dates
  /\ granted \in {"unasked", "yes", "no"}
  /\ stay \in {"before", "in", "over"}

(* The code's table turned round: the zone codes that enter each location. *)
AdmittedAt(loc) == {"0001"} \cup
  CASE loc = "0001" -> {"", "0002", "0003", "0004", "0005", "0006", "0007", "0008", "0009", "0010"}
    [] loc = "0002" -> {"0002", "0009"}
    [] loc = "0003" -> {"0002", "0006", "0007", "0008", "0009", "0010"}
    [] loc \in {"0004", "0005"} -> {"0003", "0004", "0007", "0009", "0010"}
    [] loc = "0006" -> {"0006", "0010"}
    [] OTHER -> {}

ZoneOpen == IF m_sAuthCd = {}
            THEN ei.zone_code \in AdmittedAt(m_sDvLoc)
            ELSE \/ ei.zone_code \in m_sAuthCd \cup {"0001"}
                 \/ ei.zone_code = "" /\ m_sDvLoc = "0001"
Employed == /\ ei.ent_co_ymd # NoDate /\ Number(ei.ent_co_ymd) <= Number(today)
            /\ ei.rtr_co_ymd # NoDate => Number(today) <= Number(ei.rtr_co_ymd)

(* The gate admits those at work whose zone is open and on the days from   *)
(* their first to their last, both included, and type C always; a record   *)
(* without a type may be taken for it (maindelegator.cpp:37-160).          *)
GrantMatchesRules ==
  /\ granted = "yes" => /\ ei.in_out_gb = "0002"
                        /\ ei.utype = "other" => ZoneOpen /\ Employed
  /\ granted = "no" /\ ei.in_out_gb = "0002" => ei.utype # "C" /\ ~(ZoneOpen /\ Employed)

(* An employee's days at the gate are one stay: who has been admitted and  *)
(* then refused is not admitted again, over month and year ends, unless    *)
(* the clock is set back (tools/date.cpp, maindelegator.cpp:131-160).      *)
OneStay == stay = "over" /\ granted = "yes" => ei.utype = "missing"
=============================================================================
