---------------------------- MODULE MCConnection ----------------------------
(* Connection for TLC, with the framing of every short stream and the      *)
(* logins of every short file of accounts.                                 *)
EXTENDS Connection, UserDatabase, TLC

CONSTANTS
    Letter,      \* any character but Newline
    MaxStream,   \* bound: characters in a stream
    Names,       \* the names in files and logins
    MaxFile      \* bound: lines in a file

Streams == UNION {[1 .. n -> {Letter, Newline}] : n \in 0 .. MaxStream}

\* Every stream is cut into its lines, or into full buffers where a line is too
\* long, wherever the FIFO runs empty between two reads (server_main.c,
\* process_buffered_lines).  It says nothing of the state: once will do.
FramingSound ==
    Init => \A stream \in Streams : \A arrived \in 0 .. Len(stream) :
                CutsInto(stream, arrived)

LowestBalance == -1     \* bound, as MaxBalance: the range of int32_t

FileLines ==
    [name : Names, balance : {NoNumber} \cup MinBalance - 1 .. MaxBalance + 1]
Files == UNION {[1 .. n -> FileLines] : n \in 0 .. MaxFile}

\* A login succeeds exactly if the last line that can be loaded for the name has
\* a positive balance, whatever lines surround it (auth.c, auth_load).
LoginsSound ==
    Init => \A file \in Files : \A name \in Names :
                LoginReply(AuthLoad(file), name) = "balance" <=>
                    LetIn(file, name)
=============================================================================
