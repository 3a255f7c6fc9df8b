---------------------------- MODULE MCTuiSession ----------------------------
(***************************************************************************)
(* Small instances of TuiSession for TLC.                                  *)
(***************************************************************************)
EXTENDS TuiSession

CONSTANTS a, b,   \* two domains
          upper   \* another spelling of a

Parsed == [t \in {a, b, upper} |-> IF t = upper THEN a ELSE t]
Restricted(texts) == [t \in texts |-> Parsed[t]]

(* The empty input, None, is the text that is no query. *)
Domains == {a, b}
Spellings == {a, upper, b}

ParsedDomains == Restricted(Domains)
ParsedSpellings == Restricted(Spellings)

BrowseKeys == {"type", "return", "up", "down", "section", "saved", "quit", "restart"}
SaveKeys == {"type", "return", "favorite", "restart"}

NoFile == {NoAppState}
SomeHistory == {[history |-> <<a, b>>, favorites |-> <<>>]}
SpelledHistory == {NoAppState, [history |-> <<upper, a>>, favorites |-> <<>>]}
=============================================================================
