------------------------- MODULE AccessRulesProofs -------------------------
(***************************************************************************)
(* What the gate's rules and its clock give for every set of dates,        *)
(* locations, zone codes and lists: the comparisons of Date are those of   *)
(* the calendar, the rules admit whom they should, and an employee's days  *)
(* are one stay.                                                           *)
(***************************************************************************)
EXTENDS AccessRules, TLAPS

(* Date's operators compare as the calendar counts: field by field is the  *)
(* order of the numbers, months and days having two digits.                *)
THEOREM DateOrder ==
  ASSUME NEW lh \in Dates, NEW rh \in Dates
  PROVE  /\ Number(lh) \in Int
         /\ Greater(lh, rh) <=> Number(lh) > Number(rh)
         /\ Less(lh, rh) <=> Number(lh) < Number(rh)
<1>1. /\ lh.m_year \in Nat /\ lh.m_month \in 0 .. 99 /\ lh.m_day \in 0 .. 99
      /\ rh.m_year \in Nat /\ rh.m_month \in 0 .. 99 /\ rh.m_day \in 0 .. 99
  BY DatesAssumption DEF Dates
<1> DEFINE y1 == lh.m_year  m1 == lh.m_month  d1 == lh.m_day
           y2 == rh.m_year  m2 == rh.m_month  d2 == rh.m_day
<1>2. y1 \in Int /\ m1 \in Int /\ d1 \in Int /\ y2 \in Int /\ m2 \in Int /\ d2 \in Int
      /\ 0 <= m1 /\ m1 <= 99 /\ 0 <= d1 /\ d1 <= 99
      /\ 0 <= m2 /\ m2 <= 99 /\ 0 <= d2 /\ d2 <= 99
  BY <1>1
<1>3. Number(lh) = 10000 * y1 + 100 * m1 + d1 /\ Number(rh) = 10000 * y2 + 100 * m2 + d2
  BY DEF Number
<1>4. /\ Greater(lh, rh) <=> y1 > y2 \/ (y1 = y2 /\ m1 > m2) \/ (y1 = y2 /\ m1 = m2 /\ d1 > d2)
      /\ Less(lh, rh) <=> y1 < y2 \/ (y1 = y2 /\ m1 < m2) \/ (y1 = y2 /\ m1 = m2 /\ d1 < d2)
  BY DEF Greater, Less
<1> HIDE DEF y1, m1, d1, y2, m2, d2
<1> QED
  BY <1>2, <1>3, <1>4

(* checkDate holds on the days from the first to the last.                 *)
LEMMA DateCheck ==
  ASSUME TypeOK
  PROVE  checkDate(ei.ent_co_ymd, ei.rtr_co_ymd, today) <=> Employed
<1>1. /\ ei.ent_co_ymd \in Dates \cup {NoDate} /\ ei.rtr_co_ymd \in Dates \cup {NoDate}
      /\ today \in Dates
  BY DEF TypeOK, Employees
<1>2. ASSUME ei.ent_co_ymd # NoDate
      PROVE  ~Greater(ei.ent_co_ymd, today) <=> Number(ei.ent_co_ymd) <= Number(today)
  BY <1>1, <1>2, DateOrder
<1>3. ASSUME ei.rtr_co_ymd # NoDate
      PROVE  ~Less(ei.rtr_co_ymd, today) <=> Number(today) <= Number(ei.rtr_co_ymd)
  BY <1>1, <1>3, DateOrder
<1> QED
  BY <1>2, <1>3 DEF checkDate, Employed

(* The table read zone by zone and read location by location.              *)
LEMMA ZoneCheck == checkZone(ei.zone_code) <=> ZoneOpen
<1>1. m_sDvLoc \in OpenedBy(ei.zone_code) \/ ei.zone_code = "0001"
        \/ (ei.zone_code = "" /\ m_sDvLoc = "0001")
      <=> ei.zone_code \in AdmittedAt(m_sDvLoc)
  BY DEF OpenedBy, AdmittedAt
<1> QED
  BY <1>1 DEF checkZone, ZoneOpen

(* What a stay has gone through: it has begun, and it is over because the  *)
(* last day is past.                                                       *)
Begun == /\ ei.in_out_gb = "0002"
         /\ ei.utype = "other" =>
              ZoneOpen /\ ei.ent_co_ymd # NoDate /\ Number(ei.ent_co_ymd) <= Number(today)
Past == /\ ei.utype = "other"
        /\ ei.rtr_co_ymd # NoDate /\ Number(ei.rtr_co_ymd) < Number(today)
StayInv == /\ stay # "before" => Begun
           /\ stay = "over" /\ ei.utype # "missing" => Past

IInv == TypeOK /\ GrantMatchesRules /\ StayInv

(* The invariant holds before the first card.                              *)
LEMMA InitIInv == Init => IInv
BY DEF Init, IInv, TypeOK, GrantMatchesRules, StayInv

(* A card is admitted by the rules, and a stay begins or ends with it.     *)
LEMMA CardStep == IInv /\ Card => IInv'
<1> SUFFICES ASSUME IInv, Card PROVE IInv'
  OBVIOUS
<1> USE DEF IInv
<1>1. /\ UNCHANGED <<m_sDvLoc, m_sAuthCd, ei, today>>
      /\ granted' \in {"yes", "no"}
  BY DEF Card, settings
<1>2. /\ ZoneOpen' = ZoneOpen /\ Employed' = Employed /\ Begun' = Begun /\ Past' = Past
  BY <1>1 DEF ZoneOpen, Employed, Begun, Past
<1>3. TypeOK'
  BY <1>1 DEF TypeOK, Card
<1>4. GrantMatchesRules'
  <2>1. PICK utype \in IF ei.utype = "missing" THEN {"C", "other"} ELSE {ei.utype} :
          granted' = IF checkValidate(utype) THEN "yes" ELSE "no"
    BY DEF Card
  <2>2. ei.utype \in {"C", "other", "missing"} /\ ei'.utype = ei.utype
        /\ ei'.in_out_gb = ei.in_out_gb
    BY <1>1 DEF TypeOK, Employees
  <2>3. checkValidate(utype) <=>
          ei.in_out_gb = "0002" /\ (utype # "C" => ZoneOpen /\ Employed)
    BY ZoneCheck, DateCheck DEF checkValidate
  <2> QED
    BY <1>1, <1>2, <2>1, <2>2, <2>3 DEF GrantMatchesRules
<1>5. StayInv'
  <2>1. granted' = "yes" => Begun'
    BY <1>1, <1>2, <1>4 DEF GrantMatchesRules, Begun, Employed
  <2>2. CASE stay' = stay
    BY <1>1, <1>2, <2>2 DEF StayInv
  <2>3. CASE granted' = "yes" /\ stay' = "in"
    BY <2>1, <2>3 DEF StayInv
  <2>4. CASE stay = "in" /\ granted' = "no" /\ stay' = "over"
    <3>1. Begun /\ Begun'
      BY <1>2, <2>4 DEF StayInv
    <3>2. ei.utype # "missing" => ei.utype = "other" /\ ~(ZoneOpen /\ Employed)
      BY <1>1, <1>2, <1>4, <2>4, <3>1 DEF GrantMatchesRules, Begun, TypeOK, Employees
    <3>3. ASSUME ei.utype # "missing" PROVE Past
      <4>1. ei.rtr_co_ymd # NoDate /\ ~(Number(today) <= Number(ei.rtr_co_ymd))
        BY <3>1, <3>2, <3>3 DEF Begun, Employed
      <4>2. today \in Dates /\ ei.rtr_co_ymd \in Dates
        BY <4>1 DEF TypeOK, Employees
      <4>3. Number(today) \in Int /\ Number(ei.rtr_co_ymd) \in Int
        BY <4>2, DateOrder
      <4> QED
        BY <3>2, <3>3, <4>1, <4>3 DEF Past
    <3> QED
      BY <1>1, <1>2, <2>4, <3>1, <3>3 DEF StayInv
  <2> QED
    BY <2>2, <2>3, <2>4 DEF Card
<1> QED
  BY <1>3, <1>4, <1>5

(* The next day asks again; who had a stay keeps it, or it is over.        *)
LEMMA LaterDayStep == IInv /\ LaterDay => IInv'
<1> SUFFICES ASSUME IInv, LaterDay PROVE IInv'
  OBVIOUS
<1> USE DEF IInv
<1>1. /\ UNCHANGED <<m_sDvLoc, m_sAuthCd, ei, stay>> /\ granted' = "unasked"
      /\ today' \in Dates /\ Number(today') > Number(today)
  BY DEF LaterDay, settings
<1>2. TypeOK' /\ GrantMatchesRules'
  BY <1>1 DEF TypeOK, GrantMatchesRules
<1>3. Number(today) \in Int /\ Number(today') \in Int
  BY <1>1, DateOrder DEF TypeOK
<1>4. \A date \in Dates : Number(date) \in Int
  BY DateOrder
<1>5. Begun => Begun'
  <2>1. ZoneOpen' = ZoneOpen
    BY <1>1 DEF ZoneOpen
  <2>2. ASSUME ei.ent_co_ymd # NoDate, Number(ei.ent_co_ymd) <= Number(today)
        PROVE  Number(ei.ent_co_ymd) <= Number(today')
    BY <1>1, <1>3, <1>4, <2>2 DEF TypeOK, Employees
  <2> QED
    BY <1>1, <2>1, <2>2 DEF Begun
<1>6. Past => Past'
  <2>1. ASSUME ei.rtr_co_ymd # NoDate, Number(ei.rtr_co_ymd) < Number(today)
        PROVE  Number(ei.rtr_co_ymd) < Number(today')
    BY <1>1, <1>3, <1>4, <2>1 DEF TypeOK, Employees
  <2> QED
    BY <1>1, <2>1 DEF Past
<1>7. StayInv'
  BY <1>1, <1>5, <1>6 DEF StayInv
<1> QED
  BY <1>2, <1>7

(* A clock that is set back forgets the stay.                              *)
LEMMA ClockSetBackStep == IInv /\ ClockSetBack => IInv'
BY DEF IInv, ClockSetBack, settings, TypeOK, GrantMatchesRules, StayInv

(* Nothing changes, so the invariant stays.                                *)
LEMMA StutterStep == IInv /\ UNCHANGED vars => IInv'
BY DEF IInv, vars, settings, TypeOK, GrantMatchesRules, StayInv, ZoneOpen, Employed, Begun, Past

(* The invariant holds in every state of AccessRules.                      *)
LEMMA Invariance == Spec => []IInv
<1>1. IInv /\ [Next]_vars => IInv'
  BY CardStep, LaterDayStep, ClockSetBackStep, StutterStep DEF Next
<1> QED
  BY InitIInv, <1>1, PTL DEF Spec

(* The variables have their types.                                         *)
THEOREM Typing == Spec => []TypeOK
<1>1. IInv => TypeOK
  BY DEF IInv
<1> QED
  BY Invariance, <1>1, PTL

(* checkValidate admits exactly whom the rules, read location by location  *)
(* and in calendar days, admit (maindelegator.cpp:37-160).                 *)
THEOREM Rules == Spec => []GrantMatchesRules
<1>1. IInv => GrantMatchesRules
  BY DEF IInv
<1> QED
  BY Invariance, <1>1, PTL

(* Who has been admitted and then refused is not admitted again, unless    *)
(* the record has no type or the clock is set back.                        *)
THEOREM Stay == Spec => []OneStay
<1>1. ASSUME IInv, stay = "over", granted = "yes", ei.utype # "missing"
      PROVE  FALSE
  <2>1. Past /\ Employed
    BY <1>1 DEF IInv, StayInv, Past, GrantMatchesRules
  <2>2. today \in Dates /\ ei.rtr_co_ymd \in Dates
    BY <1>1, <2>1 DEF IInv, TypeOK, Employees, Past
  <2>3. Number(today) \in Int /\ Number(ei.rtr_co_ymd) \in Int
    BY <2>2, DateOrder
  <2> QED
    BY <2>1, <2>3 DEF Past, Employed
<1>2. IInv => OneStay
  BY <1>1 DEF OneStay
<1> QED
  BY Invariance, <1>2, PTL
=============================================================================
