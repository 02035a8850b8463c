---------------------------- MODULE TokenSession ----------------------------
(***************************************************************************)
(* What the plugin promises a page, stated without the table, the packets  *)
(* or the bus: at most one token is selected, a selection is dropped       *)
(* before another is made and is never lost to a failing call, and the     *)
(* first error is final until the library is unloaded.                     *)
(***************************************************************************)
CONSTANTS
    Tokens,       \* the tokens that may be selected
    NoToken,      \* no selection
    Errors,       \* the error numbers
    OK            \* the absence of an error

VARIABLES
    session,      \* the selected token
    error         \* what TkErr shows

sessionVars == <<session, error>>

SessionInit == session = NoToken /\ error = OK

\* GetToken drops the old selection, finding a token or not.
Drop ==
    /\ error = OK
    /\ session' = NoToken
    /\ error' \in Errors \cup {OK}

\* It selects a token when none is selected.
Select(t) ==
    /\ error = OK /\ session = NoToken
    /\ session' = t
    /\ UNCHANGED error

\* A call fails; the selection is kept.
FailWith(e) ==
    /\ error = OK
    /\ error' = e
    /\ UNCHANGED session

\* The last user of the library is gone.
Unload ==
    /\ session' = NoToken
    /\ error' = OK

SessionNext ==
    \/ Drop \/ Unload
    \/ \E t \in Tokens : Select(t)
    \/ \E e \in Errors : FailWith(e)

SessionSpec == SessionInit /\ [][SessionNext]_sessionVars

=============================================================================
