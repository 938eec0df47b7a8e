--------------------------- MODULE MCModelImport ---------------------------
(* An instance of ModelImport for TLC.                                       *)
EXTENDS ModelImport

Config  == <<"c">>
Spaced  == <<"m", " ", "m">>
HiddenD == <<".h">>
Hidden  == <<".h", "/", "m">>
Short   == <<"m">>
Long    == <<"m", "x">>
Star    == <<"m", "*">>
MCOwn   == <<"Modelfile">>

MCOrder     == <<Root, HiddenD, Hidden, MCOwn, Config, Short, Spaced, Star, Long>>
MCDirs      == {Root, HiddenD}
MCSkippable == {HiddenD, MCOwn}
MCTables    == [f \in Range(MCOrder) \ MCDirs |->
                  CASE f = Config -> {"CONFIG"} [] f = Spaced -> {"MODEL", "CODE"}
                    [] f = Star -> {"DOC"} [] OTHER -> {}]
MCSizes     == [f \in Range(MCOrder) \ MCDirs |->
                  CASE f = Hidden -> 3 [] f = Long -> 4 [] f = Short -> 6 [] OTHER -> 1]
MCConfigs   == <<Config>>
MCDeclares  == [f \in {Config} |-> [model_type |-> <<"f">>, transformers_version |-> <<"4">>]]
MCBase      == [local |-> <<"d">>, temp |-> <<"repo">>]

MCVersions  == {"one", "two", "hub"}
MCPublished == {"one", "two"}
MCLatest    == {"two"}
MCObjects   == [v \in MCVersions |->
                  CASE v = "one" -> {Config, Spaced, Hidden} [] v = "two" -> {Config, Long}
                    [] OTHER -> {Long, Star}]
MCNamesakes == [v \in MCVersions |-> IF v = "two" THEN {"hub"} ELSE {}]
Url(f, v)   == [form |-> f, version |-> v]
MCUrls      == {Url("mlflow", "one"), Url("mlflow", None), Url("mlflow", "hub"), Url("modelscope", "two"),
                Url("short", "hub")}

Pattern(h, b)  == [hits |-> h, below |-> b]
NoFilter       == [include |-> {}, exclude |-> {}]
WithHidden     == [include |-> {Pattern({Hidden}, {HiddenD})}, exclude |-> {Pattern({Spaced, Star}, {})}]
Option(d, o, f, p, fl) ==
  [dir |-> d, overwrite |-> o, filter |-> f, provider |-> p, flags |-> fl]
NoFlags        == <<>>
MCOptions      == {Option("local", FALSE, NoFilter, None, NoFlags),
                   Option("local", TRUE, WithHidden, None, [FAMILY |-> <<"g">>]),
                   Option("temp", TRUE, NoFilter, "huggingface", NoFlags),
                   Option("temp", FALSE, NoFilter, None, [NAME |-> <<"a", " ", "b">>])}

MCHandwritten  == {<<Line("NAME", <<"n">>), Line("NAME", <<"n">>)>>,
                   <<Line("comment", <<>>), Line("CODE", <<"*">>)>>,
                   <<Line("MODEL", <<"\"", "m">>)>>}
MCAdded        == {Short}

\* Quoting is undone by the parser for every short path without glob
\* characters or backslashes, if a quote in it comes with a blank.
Chars == {"x", " ", "nbsp", "\"", "\\", "*"}
Paths == UNION {[1..n -> Chars] : n \in 1..4}
ASSUME QuotingIsUndone ==
  \A t \in Paths : ~Misread(t) => ParseArgs(QuoteIfNeeded(t)) = <<t>>
=============================================================================
