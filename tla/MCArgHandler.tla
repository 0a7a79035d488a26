----------------------------- MODULE MCArgHandler -----------------------------
EXTENDS ArgHandler

W(n, s) == Word(n, s)

MCTargets == {"verbose", "number", "out", "twin", "file", "dir"}
MCShort == [t \in MCTargets |->
  CASE t \in {"verbose", "twin"} -> W(1, <<"v">>)
    [] t = "number" -> W(1, <<"n">>)
    [] OTHER -> Nil]
MCLong == [t \in MCTargets |->
  CASE t = "number" -> W(2, <<"n", "u">>)
    [] t = "out" -> W(2, <<"o">>)
    [] t = "twin" -> W(2, <<"t">>)
    [] OTHER -> Nil]
MCType == [t \in MCTargets |->
  CASE t \in {"verbose", "twin"} -> "inc" [] t = "out" -> "cb"
    [] t = "dir" -> "add" [] OTHER -> "set"]
MCCallbacks == {"out", "file"}
MCSetType == [t \in MCTargets |->
  CASE t = "number" -> "exactly_one" [] t = "out" -> "one_many"
    [] t = "file" -> "zero_one" [] OTHER -> "zero_many"]
MCHasParam == [t \in MCTargets |-> t # "verbose"]
MCSetups == {<<"verbose", "number", "out", "file", "dir">>,
             <<"twin", "verbose", "number", "out">>,
             <<"number", "dir">>}
MCPassInit == W(2, <<>>)

a == W(0, <<"a">>)
b == W(0, <<"b">>)
MCLines ==
  {<<>>,
   <<W(1, <<"v", "n">>), a, b, W(0, <<"c">>), a>>,
   <<W(1, <<"n">>), a, W(2, <<"n", "u">>), b>>,
   <<W(2, <<"o">>), W(1, <<"v", "x">>), W(0, <<>>)>>,
   <<W(2, <<"o">>), W(1, <<"v">>), a, W(1, <<"n">>)>>,
   <<b, a>>,
   <<W(1, <<"n">>), W(1, <<>>), b, W(2, <<>>), W(1, <<"n">>), a>>}
MCBuckets == {0, 4}
=============================================================================
