--------------------------- MODULE MCTradeIngest ---------------------------
(* Three trades; the second and third come in the same second, and have no    *)
(* upstream id and the same fill.  The listing's reach is two pages.         *)
EXTENDS TradeIngest

const_At   == <<1, 2, 2>>
const_Ext  == <<"a", None, None>>
const_Fill == <<"f", "g", "g">>
=============================================================================
