-------------------------- MODULE MCSmtpDestination --------------------------
(* Model-checking instances of SmtpDestination.                            *)
EXTENDS SmtpDestination

CONSTANTS m1, m2, m3, m4, m5, ok, bad

\* Message m4 matches a filter, and m5 does not match what is required.
MCMatches == [m \in {m1, m2, m3, m4, m5} |->
                CASE m = m4 -> {ok, bad} [] m = m5 -> {} [] OTHER -> {ok}]
=============================================================================
