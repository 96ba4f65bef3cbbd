--------------------------- MODULE CredentialChain ---------------------------
(***************************************************************************)
(* What an account promises about its credential documents, without locks, *)
(* processes, requests or a database.  The documents of an account form a  *)
(* chain: the provider's answer to a refresh appends to it at once.        *)
(***************************************************************************)
EXTENDS Naturals

VARIABLES
    doc,     \* the document the account has, numbered in the order of issue
    root,    \* the authorisation that document descends from
    usable,  \* does the provider accept its refresh token
    broken   \* has an administrator replaced a document unseen

vars == <<doc, root, usable, broken>>

Init ==
    /\ doc = 1
    /\ root = 1
    /\ usable = TRUE
    /\ broken = FALSE

\* A refresh replaces a usable document by a later one of its authorisation.
Rotate ==
    /\ usable
    /\ doc' > doc
    /\ UNCHANGED <<root, usable, broken>>

\* The answer to a refresh is lost: the account is left with a document that
\* the provider no longer accepts.
Lose ==
    /\ usable
    /\ usable' = FALSE
    /\ doc' <= doc
    /\ UNCHANGED <<root, broken>>

\* An administrator authorises the account again, usable or not.
Reauthorize ==
    /\ doc' > doc
    /\ root' = doc'
    /\ usable' = TRUE
    /\ broken' = FALSE

\* An administrator's update, made from an earlier read, replaces a document it
\* had not read: nothing is promised until the next authorisation.
Overwrite == broken' = TRUE

Next == Rotate \/ Lose \/ Reauthorize \/ Overwrite

Spec == Init /\ [][Next]_vars

=============================================================================
