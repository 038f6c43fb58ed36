--------------------------- MODULE MCUpParamPack ----------------------------
(* Model-checking instance of UpParamPack: two members, sizes on both sides *)
(* of every block, record and partition boundary, references that agree and *)
(* that differ in each way the comparison looks at.                         *)
EXTENDS UpParamPack

Names(list) == {list[i] : i \in DOMAIN list}

Two == <<"logo.jpg", "letter.jpg">>
Sizes == {1, 3, 4, 5, 8, 9}

Dir(names, sizes, truncated) ==
  [names |-> names, sizes |-> sizes, truncated |-> truncated]
Dirs ==
  {Dir(Names(Two), s, {}) : s \in [1..2 -> Sizes]}
  \cup {Dir({"logo.jpg"}, <<4, 4>>, {}),
        Dir(Names(Two) \cup {"other.jpg"}, <<4, 4>>, {}),
        Dir(Names(Two), <<4, 4>>, {"logo.jpg"})}

Stock == Tar(Two, <<5, 0>>)
Tars ==
  {Stock, Tar(Two, <<4, 8>>),
   Tar(<<"letter.jpg", "logo.jpg">>, <<5, 5>>),
   Tar(<<"logo.jpg">>, <<5>>),
   [Stock EXCEPT !.headers[2].other = "changed"],
   [Stock EXCEPT !.tail = "data"],
   [Stock EXCEPT !.length = Stock.end]}
=============================================================================
