------------------------------- MODULE MCPrintf -------------------------------
(***************************************************************************)
(* An instance of Printf: the directives with a conversion d, x, p, s or % *)
(* that ISO C defines with one of the widths and precisions below, each    *)
(* alone, and some formats of several items.  A word has five bits, and    *)
(* the buffer room for four characters.                                    *)
(***************************************************************************)
EXTENDS Printf

Widths == {<<>>, <<"2">>, <<"1", "0">>}
Precisions == {<<>>, <<".">>, <<".", "0">>, <<".", "3">>}

(* Flags, each once, in every order. *)
Orders(flags) == UNION {SetToSeqs(f) : f \in SUBSET flags}

Directives ==
  {Directive("d", f, w, p) : f \in Orders({"-", "0"}), w \in Widths, p \in Precisions}
    \cup {Directive("x", f, w, p) : f \in Orders({"#", "-", "0"}), w \in Widths, p \in Precisions}
    \cup {Directive("s", f, w, p) : f \in Orders({"-"}), w \in Widths, p \in Precisions}
    \cup {Directive("p", f, w, <<>>) : f \in Orders({"-"}), w \in Widths}

d == Directive("d", <<>>, <<>>, <<>>)
wide == Directive("d", <<"-">>, <<"7">>, <<".", "3">>)
hex == Directive("x", <<"#", "0">>, <<>>, <<>>)
name == Directive("s", <<>>, <<"3">>, <<>>)
percent == Directive("%", <<>>, <<>>, <<>>)
letters == TextItem(<<"k", "e", "r", "n", ">">>)

(* Several items, a letter that is a conversion behind a directive, and the *)
(* literal percent in front of a letter that is none of printf's, of one    *)
(* that is a conversion, and of a directive.                                *)
Several ==
  {<<letters, d, letters>>, <<d, TextItem(<<"d">>)>>, <<wide, d>>, <<hex, wide, name>>, <<name, hex, letters, d>>,
   <<d, percent>>, <<percent, letters, d>>, <<percent, TextItem(<<"k">>)>>,
   <<percent, TextItem(<<"d">>)>>, <<percent, d>>, <<percent, percent>>}

MCFormats == {<<i>> : i \in Directives} \cup Several
MCWords == {0, 5, 12, 16, 17, 31}
ASSUME MCFormatsDefined == DefinedFormats
MCStrings == [address \in 1 .. 3 |-> <<<<>>, <<"h", "i">>, <<"b", "o", "o", "t">>>>[address]]
=============================================================================
