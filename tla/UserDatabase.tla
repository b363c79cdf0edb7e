---------------------------- MODULE UserDatabase ----------------------------
(***************************************************************************)
(* The accounts (auth.c) and what Login makes of them (rpc.c).  A line of  *)
(* users.txt is the name and the number it holds.                          *)
(***************************************************************************)
EXTENDS Integers, Sequences, SequencesExt

CONSTANTS
    ValidNames,    \* the names that are short and alphanumeric
    MinBalance,    \* INT32_MIN
    MaxBalance,    \* INT32_MAX
    NoNumber       \* a balance that is missing or no number

\* auth_load skips a line with a name or a balance that is not valid.
Loadable(line) ==
    /\ line.name \in ValidNames
    /\ line.balance # NoNumber
    /\ line.balance \in MinBalance .. MaxBalance

\* Each user is put before those of the lines above (mutant: after them).
PutLast(db, line) == Append(db, line)
PutFirst(db, line) == <<line>> \o db

AuthLoad(file) ==
    LET load(db, line) == IF Loadable(line) THEN PutFirst(db, line) ELSE db
    IN  FoldLeft(load, <<>>, file)

\* auth_lookup finds the first entry of a name, 0 if there is none.
AuthLookup(db, name) == SelectInSeq(db, LAMBDA user : user.name = name)

\* The reply to Login with the given name.
LoginReply(db, name) ==
    LET user == AuthLookup(db, name) IN
    IF name \notin ValidNames THEN "error"
    ELSE IF user = 0 THEN "reject"
    ELSE IF db[user].balance <= 0 THEN "reject"
    ELSE "balance"

-----------------------------------------------------------------------------
\* Whom a file lets in: those whose last line that can be loaded has a positive
\* balance.
LetIn(file, name) ==
    \E i \in DOMAIN file :
        /\ Loadable(file[i]) /\ file[i].name = name /\ file[i].balance > 0
        /\ \A j \in i + 1 .. Len(file) :
             ~(Loadable(file[j]) /\ file[j].name = name)
=============================================================================
