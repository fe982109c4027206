---------------------------- MODULE MCDeployment ----------------------------
(***************************************************************************)
(* A vocabulary of parameters that meet every conversion: two NaNs, a      *)
(* boolean next to the integer it equals in Python, integers beyond 64     *)
(* bits that round to one float, and names and texts made of separators    *)
(* and of their codes.                                                     *)
(***************************************************************************)
EXTENDS Deployment

MCInts == {"0", "1"}
MCFloats == {CANON_NAN, "7ff8000000000001", "9.2e18"}
MCNaNs == {CANON_NAN, "7ff8000000000001"}
MCRounded == [big \in {"9223372036854775808", "9223372036854775809"} |-> "9.2e18"]

Semicolon == <<";">>
Code == <<"%", "3", "B">>
MCNameOrder == <<Code, Semicolon, <<"a">>, <<"b">> >>

PyInt(n) == PyValue("int", <<n>>)
Float(bits) == PyValue("float", <<bits>>)
True == PyValue("bool", <<"true">>)
Str(text) == PyValue("str", text)

Dicts ==
  {<<>>,
   <<Entry(<<"a">>, Float(CANON_NAN))>>,
   <<Entry(<<"a">>, Float("7ff8000000000001"))>>,
   <<Entry(<<"a">>, True), Entry(<<"b">>, PyInt("1"))>>,
   <<Entry(<<"b">>, PyInt("1")), Entry(<<"a">>, True)>>,
   <<Entry(<<"b">>, True), Entry(<<"a">>, PyInt("1"))>>,
   <<Entry(<<"a">>, PyInt("9223372036854775808"))>>,
   <<Entry(<<"a">>, PyInt("9223372036854775809"))>>,
   <<Entry(Semicolon, Str(Code)), Entry(Code, Str(<<"|", "=">>))>>,
   <<Entry(Code, Str(Semicolon))>>}

Shape(kind, name, prep, arity, dict) ==
  [kind |-> kind, name |-> name, prep |-> prep, arity |-> arity, dict |-> dict]

SourceDicts == {<<Entry(<<"a">>, Float(bits))>> : bits \in MCNaNs}

MCShapes ==
  {Shape("source", <<"x">>, <<>>, 0, d) : d \in SourceDicts}
  \union {Shape("op", <<"f", "|">>, <<>>, 1, d) : d \in Dicts}
  \union {Shape("external", <<"m">>, << <<"-">> >>, 1, <<>>)}

MCOutputLists == {<<0>>, <<1, 0, 1>>}

MCNumEntries == [five |-> 5, none |-> 0, two |-> 2]
MCUris == DOMAIN MCNumEntries
MCUriLists == {<<"five", "none", "two">>}
MCProcesses == {[kind |-> "ref", ref |-> "m:f"], [kind |-> "opaque", ref |-> "m:f"]}
=============================================================================
