------------------------------- MODULE Params -------------------------------
(***************************************************************************)
(* Parameters of a node (param.rs), where they come from and go to in      *)
(* Python (lib.rs), and the operator tokens that carry them (node.rs).     *)
(*                                                                         *)
(* A text is a sequence of one-character strings.  What the code prints    *)
(* and parses as a whole (a number, the bits of a float, a boolean, the    *)
(* kind of an operator) is a single element of a text, and the payload of  *)
(* every value is a text.  An optional result is a sequence of length at   *)
(* most one.                                                               *)
(***************************************************************************)
EXTENDS Naturals, Sequences, FiniteSets, SequencesExt

CONSTANTS NameOrder,  \* the parameter names in byte order
          Ints,       \* the 64-bit integers in use
          Floats,     \* the bits of floats in use
          NaNs,       \* those that are not a number, CANON_NAN among them
          Rounded     \* Python integers beyond 64 bits and the float each rounds to

\* A sequence, of whatever it holds.
IsList(s) == s \in Seq(ToSet(s))

ASSUME NamesAreOrdered == IsList(NameOrder) /\ \A k \in ToSet(NameOrder) : IsList(k)

CANON_NAN == "7ff8000000000000"

ASSUME FloatsClosed ==
  /\ CANON_NAN \in NaNs /\ NaNs \subseteq Floats
  /\ DOMAIN Rounded \intersect Ints = {}
  /\ \A big \in DOMAIN Rounded : Rounded[big] \in Floats \ NaNs

None == <<>>
Some(x) == <<x>>
Mapped(option, F(_)) == IF option = None THEN None ELSE Some(F(option[1]))

\* collect: all the results, or none when one is missing.
AllOrNone(options) ==
  IF \E n \in DOMAIN options : options[n] = None THEN None
  ELSE Some([n \in DOMAIN options |-> options[n][1]])

ParamValue(tag, val) == [tag |-> tag, val |-> val]
PyValue(type, val) == [type |-> type, val |-> val]
Entry(k, v) == [k |-> k, v |-> v]

-----------------------------------------------------------------------------
(* Identity: a float counts by its key, which is the same for all NaNs.    *)

FloatKey(bits) == IF bits \in NaNs THEN CANON_NAN ELSE bits

Canonical(v) ==
  IF v.tag = "f" THEN ParamValue("f", <<FloatKey(v.val[1])>>) ELSE v

CanonicalMap(params) ==
  [n \in DOMAIN params |-> Entry(params[n].k, Canonical(params[n].v))]

\* Mutant: entries stay in the order of the caller's dict.
ParamMapUnsorted(entries) == entries

\* ParamMap::new sorts the entries by name and is stable: the i-th entry is the
\* one before which i - 1 entries go.
ParamMap(entries) ==
  LET rank(k) == CHOOSE n \in DOMAIN NameOrder : NameOrder[n] = k
      before(n) == {m \in DOMAIN entries :
                      \/ rank(entries[m].k) < rank(entries[n].k)
                      \/ entries[m].k = entries[n].k /\ m < n}
  IN [i \in DOMAIN entries |->
        entries[CHOOSE n \in DOMAIN entries : Cardinality(before(n)) = i - 1]]

-----------------------------------------------------------------------------
(* Between Python and Rust.  A Python bool is an int as well.              *)

\* The values a parameter may have.  Any other (another type, an int too large
\* for a float) is refused with an error before the store is touched, so a call
\* with one changes nothing and is no step of a recording.
IsPy(v) ==
  \/ \E b \in {"true", "false"} : v = PyValue("bool", <<b>>)
  \/ \E n \in Ints \union DOMAIN Rounded : v = PyValue("int", <<n>>)
  \/ \E bits \in Floats : v = PyValue("float", <<bits>>)
  \/ v = PyValue("str", v.val) /\ IsList(v.val)

FitsInt64(v) == v.type = "bool" \/ (v.type = "int" /\ v.val[1] \in Ints)

\* Mutant: int is tried before bool.
FromPyIntFirst(v) ==
  CASE v.type = "bool" -> ParamValue("i", IF v.val[1] = "true" THEN <<"1">> ELSE <<"0">>)
    [] v.type = "int" /\ FitsInt64(v) -> ParamValue("i", v.val)
    [] v.type = "int" /\ ~ FitsInt64(v) -> ParamValue("f", <<Rounded[v.val[1]]>>)
    [] v.type = "float" -> ParamValue("f", v.val)
    [] v.type = "str" -> ParamValue("s", v.val)

\* An int that does not fit is taken as the float nearest to it.
FromPy(v) ==
  CASE v.type = "bool" -> ParamValue("b", v.val)
    [] v.type = "int" /\ FitsInt64(v) -> ParamValue("i", v.val)
    [] v.type = "int" /\ ~ FitsInt64(v) -> ParamValue("f", <<Rounded[v.val[1]]>>)
    [] v.type = "float" -> ParamValue("f", v.val)
    [] v.type = "str" -> ParamValue("s", v.val)

\* params_from_py: the entries of a dict, in the order of the dict.
ParamsFromPy(dict) ==
  ParamMap([n \in DOMAIN dict |-> Entry(dict[n].k, FromPy(dict[n].v))])

ToPy(v) ==
  PyValue(CASE v.tag = "i" -> "int" [] v.tag = "f" -> "float"
            [] v.tag = "b" -> "bool" [] v.tag = "s" -> "str", v.val)

ParamsToPy(params) ==
  [n \in DOMAIN params |-> Entry(params[n].k, ToPy(params[n].v))]

-----------------------------------------------------------------------------
(* Escaping of the separators.                                             *)

\* str::replace: every occurrence of from, left to right, becomes to.
Replace(text, from, to) ==
  LET tail(n) == SubSeq(text, n, Len(text))
      rest[n \in 1 .. (Len(text) + Len(from))] ==
        IF n > Len(text) THEN <<>>
        ELSE IF IsPrefix(from, tail(n)) THEN to \o rest[n + Len(from)]
        ELSE <<text[n]>> \o rest[n + 1]
  IN rest[1]

Separators == <<"%", ";", "=", "|">>
Codes == << <<"%", "2", "5">>, <<"%", "3", "B">>, <<"%", "3", "D">>, <<"%", "7", "C">> >>

EscapeOne(text, n) == Replace(text, <<Separators[n]>>, Codes[n])
UnescapeOne(text, n) == Replace(text, Codes[n], <<Separators[n]>>)

\* What is printed of a number.
ASSUME NumbersAreDigits == (Ints \union Floats) \intersect ToSet(Separators) = {}

\* The escape character goes first.
Escape(text) == EscapeOne(EscapeOne(EscapeOne(EscapeOne(text, 1), 2), 3), 4)

\* Mutant: unescaping goes through the codes in the order of escaping.
UnescapeForward(text) ==
  UnescapeOne(UnescapeOne(UnescapeOne(UnescapeOne(text, 1), 2), 3), 4)

\* The codes in the opposite order, the escape character last.
Unescape(text) ==
  UnescapeOne(UnescapeOne(UnescapeOne(UnescapeOne(text, 4), 3), 2), 1)

-----------------------------------------------------------------------------
(* Tokens and their parser.                                                *)

\* The pieces after one more character: a separator opens the next one.
WithChar(pieces, c, sep) ==
  IF c = sep THEN Append(pieces, <<>>)
  ELSE [pieces EXCEPT ![Len(pieces)] = Append(@, c)]

\* split: the pieces of text between the separators.
Pieces(text, sep) ==
  LET upto[n \in 0 .. Len(text)] ==
        IF n = 0 THEN << <<>> >> ELSE WithChar(upto[n - 1], text[n], sep)
  IN upto[Len(text)]

ValueToken(v) == <<v.tag>> \o (IF v.tag = "s" THEN Escape(v.val) ELSE Canonical(v).val)

ValueFromToken(token) ==
  LET tag == token[1]
      rest == Tail(token)
      parses == CASE tag = "i" -> Len(rest) = 1 /\ rest[1] \in Ints
                  [] tag = "f" -> Len(rest) = 1 /\ rest[1] \in Floats
                  [] tag = "b" -> rest \in {<<"true">>, <<"false">>}
                  [] OTHER -> tag = "s"
  IN IF token = <<>> \/ ~ parses THEN None
     ELSE Some(ParamValue(tag, IF tag = "s" THEN Unescape(rest) ELSE rest))

EntryToken(e) == Escape(e.k) \o <<"=">> \o ValueToken(e.v)

\* ParamMap::token, of a map that is not empty.
MapToken(params) ==
  LET upto[n \in 1 .. Len(params)] ==
        IF n = 1 THEN EntryToken(params[1])
        ELSE upto[n - 1] \o <<";">> \o EntryToken(params[n])
  IN upto[Len(params)]

\* A name and a value on the two sides of the first equals sign.
EntryFromToken(token) ==
  LET eq == SelectInSeq(token, LAMBDA c : c = "=")
  IN IF eq = 0 THEN None
     ELSE Mapped(ValueFromToken(SubSeq(token, eq + 1, Len(token))),
                 LAMBDA v : Entry(Unescape(SubSeq(token, 1, eq - 1)), v))

ParamsFromToken(token) ==
  IF token = <<>> THEN Some(<<>>)
  ELSE LET EntriesOf(pieces) == [n \in DOMAIN pieces |-> EntryFromToken(pieces[n])]
       IN Mapped(AllOrNone(EntriesOf(Pieces(token, ";"))), ParamMap)

\* NodeKey::token of an op ("op") or a reduction ("red").
OpToken(kind, name, params) ==
  <<kind, "|">> \o Escape(name)
    \o (IF params = <<>> THEN <<>> ELSE <<"|">> \o MapToken(params))

\* parse_op_token: two cuts at a bar; the rest is the parameter map.
ParsePieces(token, pieces) ==
  LET rest == SubSeq(token, Len(pieces[1]) + Len(pieces[2]) + 3, Len(token))
  IN IF Len(pieces) < 2 \/ pieces[1] \notin {<<"op">>, <<"red">>} THEN None
     ELSE Mapped(IF Len(pieces) = 2 THEN Some(<<>>) ELSE ParamsFromToken(rest),
                 LAMBDA params : [kind |-> pieces[1][1],
                                  name |-> Unescape(pieces[2]), params |-> params])

ParseOpToken(token) == ParsePieces(token, Pieces(token, "|"))
=============================================================================
