----------------------------- MODULE SeatLayout -----------------------------
(***************************************************************************)
(* The cabins the flight service knows, and the copy of them the web app   *)
(* keeps to count the seats a flight should have.  Neither reads the other.*)
(* A model that is not listed gets the cabin without a business class.     *)
(***************************************************************************)
EXTENDS Integers, FiniteSets

Section(first, last, letters) ==
  [rows |-> first..last, letters |-> letters]

Narrow == {"A", "B", "C", "D"}
Six    == Narrow \union {"E", "F"}
Wide   == Six \union {"G", "H"}

\* seat-layout.ts: the letters of a section are those of its seat groups.
CabinLayout(model) ==
  CASE model \in {"A320", "A321", "A20N"} ->
         {Section(1, 2, Narrow), Section(3, 6, Six)}
    [] model = "B787" ->
         {Section(1, 3, {"A", "C", "D", "F"}), Section(4, 6, Wide)}
    [] model = "A333" -> {Section(1, 2, Six), Section(3, 5, Wide)}
    [] model = "AT72" -> {Section(1, 7, Narrow)}
    [] OTHER -> {Section(1, 6, Six)}

SeatTemplates(model) ==
  UNION {s.rows \X s.letters : s \in CabinLayout(model)}

\* utils/seatLayout.ts: <<rows, seats in a row>> of each section.
PageLayout(model) ==
  CASE model \in {"A320", "A321", "A20N"} -> <<<<2, 4>>, <<4, 6>>>>
    [] model = "B787" -> <<<<3, 4>>, <<3, 8>>>>
    [] model = "A333" -> <<<<2, 6>>, <<3, 8>>>>
    [] model = "AT72" -> <<<<7, 4>>, <<0, 0>>>>
    [] OTHER -> <<<<6, 6>>, <<0, 0>>>>

ExpectedSeatCount(model) ==
  LET page == PageLayout(model)
  IN  page[1][1] * page[1][2] + page[2][1] * page[2][2]
=============================================================================
