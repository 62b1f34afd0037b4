------------------------------ MODULE MCHelpers ------------------------------
(***************************************************************************)
(* An instance of Helpers for TLC.  The texts that a setting is read from  *)
(* are named here, the other constants are in the configuration.           *)
(***************************************************************************)
EXTENDS Helpers

\* Every text of one or two tokens, some of three, and one that is too long where MaxHost is 3,
\* unless its feed is stripped.
Strings(n, S) == UNION {[1..k -> S] : k \in 1..n}
MCTexts == Strings(2, {"a", ":", "[", "]", "/", "blank", "feed", ".", "80"})
           \cup {<<"[", ":", "]">>, <<"a", "]", ":">>, <<"a", ":", "80">>,
                 <<"a", "feed", "a">>, <<"feed", ".", "feed">>, <<"feed", "[", "feed">>, <<"feed", "a", "a", "a">>}
=============================================================================
