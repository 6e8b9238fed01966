--------------------------- MODULE MCBackOffice ---------------------------
EXTENDS BackOffice

(* Two linked accounts share a code, a third has its own. *)
MCTourCode(c) == IF c = "w" THEN "X" ELSE "Y"

(* Two contacts of one agency and one of another.                          *)
MCHouseOf(p) == IF p = "p3" THEN "h2" ELSE "h1"

(* The same evidence in two forms, another one, and one that is refused.   *)
Body(landing, source) == [landing |-> landing, source |-> source]
MCBodies == {Body(Null, ""), Body("", Null), Body("page", ""), Body("nourl", "")}

(* Image b adds a migration that may run online, c one that may not; d is  *)
(* b with the content of its migration changed.                            *)
MCManifest(i) ==
    CASE i = "a" -> ("m1" :> 1)
      [] i = "b" -> ("m1" :> 1 @@ "m2" :> 1)
      [] i = "c" -> ("m1" :> 1 @@ "m2" :> 1 @@ "b1" :> 1)
      [] i = "d" -> ("m1" :> 1 @@ "m2" :> 2)

(* Days that fit together and days that break each rule. *)
Route(a, b, m, v) == [from |-> a, to |-> b, mode |-> m, vehicle |-> v]
Leg(a, b, m, v, selected) ==
  [from |-> a, to |-> b, mode |-> m, vehicle |-> v, showInMileage |-> selected]
H(t, c, h) == [tier |-> t, city |-> c, hotel |-> h, breakfast |-> t = "A"]
Fee(k, n, s) == [kind |-> k, name |-> n, state |-> s]
D(a, b, o, hs, ls) == [depart |-> a, end |-> b, overnight |-> o, hotels |-> hs, legs |-> ls,
  order |-> <<>>, items |-> <<>>, fees |-> {}]
AX == H("A","x","hx")
BX == H("B","x","hy")
AY == H("A","y","hz")
XY == Leg("x","y","hsr",Absent,TRUE)
YX == Leg("y","x","private_vehicle","v5",FALSE)
XX == Leg("x","x","other",Absent,TRUE)
MCDayPlans == {
  D("x","x","x",<<AX>>,<<>>),
  D("x","x","x",<<AX,BX>>,<<>>),
  D("x","x","x",<<H("A","x",Absent)>>,<<>>),
  D("x","x",Absent,<<>>,<<>>),
  D("x","x","x",<<>>,<<>>),
  D("x","x","y",<<AY>>,<<>>),
  D("x","y","y",<<AY>>,<<XY>>),
  D("x","y","y",<<AX>>,<<XY>>),
  D("x","y",Absent,<<>>,<<YX>>),
  [D("x","x","x",<<BX>>,<<XY, YX, XX>>) EXCEPT !.order = <<3, 2>>, !.items = <<"p","p">>,
     !.fees = {Fee("entry", "p", "INCLUDED"), Fee("meal", "dinner", "INCLUDED")}],
  D("y","y","y",<<AY>>,<<>>),
  [D("y","x",Absent,<<>>,<<YX>>) EXCEPT !.items = <<"q">>],
  [D("y","y",Absent,<<>>,<<>>) EXCEPT !.fees = {Fee("meal", "lunch", "UNKNOWN")}],
  D("x","z","x",<<AX>>,<<>>) }
MCAttractionCity(a) == IF a = "p" THEN "y" ELSE "x"
MCAttractionPrice(a) == IF a = "p" THEN 7 ELSE Absent
MCRoutes == {Route("x","y","hsr",Absent), Route("y","x","private_vehicle","v5"),
             Route("y","x","hsr",Absent)}
MCSkeletons == {<<"x">>, <<"x","y">>, <<"x","y","x">>, <<"x","z">>}
MCDestinations == {<<>>, <<"y">>, <<"x","y","z">>, <<"y", "x">>}
Comp(a, b, s) == [c \in PriceCategories |-> CASE c = "hotel" -> [amount |-> a, shown |-> TRUE]
   [] c = "meal" -> [amount |-> b, shown |-> s] [] OTHER -> [amount |-> Absent, shown |-> s]]
Row(v, t, u, c) == [vehicle |-> v, tier |-> t, unit |-> u, components |-> c]
MCPriceRows == { {Row(Absent,"A",30,Absent)}, {Row("v5","A",30,Comp(10,5,FALSE)), Row("v5","B",Absent,Comp(10,5,TRUE))},
   {Row("v5","B",20,Absent)}, {Row(Absent,Absent,Absent,Comp(Absent,Absent,TRUE))}, {Row(Absent,Absent,5,Absent)} , {Row("v5", Absent, 9, Absent)} , {Row("v5", "A", 9, Comp(4,0,TRUE))} }
=============================================================================
