--------------------------- MODULE MCAccessRules ---------------------------
(* Model-checking instance of AccessRules.                                 *)
EXTENDS AccessRules

AllLocations == {"0001", "0002", "0003", "0004", "0005", "0006"}
AllZoneCodes == {"", "0001", "0002", "0003", "0004", "0005", "0006", "0007", "0008", "0009",
                 "0010", "0011"}
AllLists == {{}, {"0003", "0009"}}
=============================================================================
