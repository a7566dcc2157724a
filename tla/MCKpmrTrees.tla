---------------------------- MODULE MCKpmrTrees ----------------------------
(***************************************************************************)
(* Instances of KpmrTrees: every list of up to four records with ids of     *)
(* all levels; ids occur twice and in every order.                          *)
(***************************************************************************)
EXTENDS KpmrTrees

Lists(ids) == UNION {[1..n -> ids] : n \in 0..4}

\* SK is 1.  SK01000000, SK01001000 and SK01001001, of which the first is a
\* possible parent of both others; SK010000 and SK010100; SK00 and SK01; an id
\* of another form, an empty one and none.
Sources == { <<1,1,0,0,0>>, <<1,1,0,10,0>>, <<1,1,0,10,1>>,
             <<1,1,0,0>>, <<1,1,1,0>>, <<1,0>>, <<1,1>>, <<1>>, <<0>>, <<>> }
MCSources == Lists(Sources)

\* Categories that end in a zero, a subcategory whose first digit is used, items
\* without a subcategory, an id of another form, an empty one and none.
Profiles == { <<1,0, 0,0,0, 0,0,0>>, <<1,0, 0,1,0, 0,0,0>>, <<1,0, 0,1,0, 0,0,4>>,
              <<1,2, 0,0,0, 0,0,0>>, <<1,0, 1,0,0, 0,0,0>>, <<1,0, 1,0,0, 0,2,0>>,
              <<1,0, 0,0,0, 0,0,1>>, <<1>>, <<0>>, <<>> }
MCProfiles == Lists(Profiles)
=============================================================================
