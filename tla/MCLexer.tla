------------------------------- MODULE MCLexer -------------------------------
(* Constants of the lexer's runs: short texts over the characters of one topic each. *)
EXTENDS Lexer, TLC

Texts(alphabet, n) == UNION {[1..k -> alphabet] : k \in 0..n}

Keyword == <<"i", "f">> :> "IF"

ShortTexts ==
  Texts({"a", "NL", "/", "*"}, 6) \cup Texts({"\"", "'", "\\", "NL"}, 5)
    \cup Texts({"i", "f", "1", "_"}, 5) \cup Texts({"=", "!", "&", "|", " ", "#"}, 4)
    \cup Texts({"\"", "/", "i", "NL"}, 5)

Outside == {<<>>, <<"a", "NUL">>, <<"'", "NL", "NUL">>}
=============================================================================
