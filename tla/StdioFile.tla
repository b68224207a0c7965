----------------------------- MODULE StdioFile -----------------------------
(***************************************************************************)
(* What the documentation of StdioStream promises: a file read and written *)
(* as if there were no buffer.  A call that meets a card fault says so, in *)
(* its result or in the error indicator; nothing more is promised of it.   *)
(* Two sentences of StdioStream.h are not asked for, since the code does   *)
(* not keep them: that an fseek to a position the file does not have sets  *)
(* the error indicator (313), and that an update stream is flushed when    *)
(* its last operation was not input (143): the code may refuse then, and   *)
(* the promise left is that nothing was unwritten.                         *)
(***************************************************************************)
EXTENDS Integers, Sequences

VARIABLES
  mode,      \* "closed" or the mode fopen was called with
  content,   \* the bytes of the file
  saved,     \* those on the card: any call may save, fflush and fclose must
  pos,       \* the position indicator
  ahead,     \* what the next reads will deliver: pushed-back bytes, then the file
  error,     \* the error indicator
  faults,    \* card faults so far
  ret        \* the last call: its name, what it asked for (bytes, or one number or
             \* mode), the bytes it got, not EOF

vars == <<mode, content, saved, pos, ahead, error, faults, ret>>

After(c, p) == SubSeq(c, p + 1, Len(c))
\* The bytes b written over c at position p.
Over(c, p, b) == SubSeq(c, 1, p) \o b \o After(c, p + Len(b))
\* The first k bytes of a, fewer at the end of file.
Upto(a, k) == SubSeq(a, 1, IF k < Len(a) THEN k ELSE Len(a))
\* A line ends after the newline, the byte 0.
Line(a, k) ==
  LET u == Upto(a, k)
      ends == {i \in 1 .. Len(u) : u[i] = 0}
  IN  IF ends = {} THEN u ELSE SubSeq(u, 1, CHOOSE i \in ends : \A j \in ends : i <= j)

Did(call) == ret'.call = call /\ ret'.ok
Data == ret'.asked
Asked == ret'.asked[1]

Init ==
  /\ mode = "closed" /\ pos = 0 /\ ahead = <<>> /\ error = FALSE /\ faults = 0
  /\ ret = [call |-> "none", asked |-> <<>>, got |-> <<>>, ok |-> TRUE]

Open ==
  /\ Did("fopen") /\ mode = "closed" /\ mode' = Asked
  /\ content' = (IF mode' \in {"w", "w+"} THEN <<>> ELSE content)
  /\ pos' = 0 /\ ahead' = content' /\ UNCHANGED <<error, faults>>

Read ==
  /\ \/ Did("fread") /\ ret'.got = Upto(ahead, Asked)
     \/ Did("fgets") /\ ret'.got = Line(ahead, Asked)
  /\ mode \notin {"closed", "w", "a"} /\ ahead # <<>>
  /\ pos' = pos + Len(ret'.got) /\ ahead' = After(ahead, Len(ret'.got))
  /\ UNCHANGED <<mode, content, error, faults>>

Write ==
  /\ Did("fwrite") /\ mode \notin {"closed", "r"}
  /\ IF mode \in {"a", "a+"}
       THEN content' = content \o Data /\ pos' = Len(content')
       ELSE content' = Over(content, pos, Data) /\ pos' = pos + Len(Data)
  /\ ahead' = After(content', pos') /\ UNCHANGED <<mode, error, faults>>

Seek ==
  /\ Did("fseek") /\ mode # "closed"
  /\ pos' = Asked /\ ahead' = After(content, Asked) /\ UNCHANGED <<mode, content, error, faults>>

Unget ==
  /\ Did("ungetc") /\ mode # "closed"
  /\ pos' = pos - 1 /\ ahead' = Data \o ahead /\ UNCHANGED <<mode, content, error, faults>>

Flush ==
  /\ Did("fflush") /\ mode # "closed" /\ saved' = content
  /\ UNCHANGED <<mode, content, pos, ahead, error, faults>>
Clear == Did("clearerr") /\ error' = FALSE /\ UNCHANGED <<mode, content, pos, ahead, faults>>

Close ==
  /\ Did("fclose") /\ mode # "closed" /\ mode' = "closed"
  /\ pos' = 0 /\ ahead' = <<>> /\ error' = FALSE /\ saved' = content
  /\ UNCHANGED <<content, faults>>

\* EOF is returned at the end of the file, for a position the file does not have, for a byte that
\* cannot be pushed back, by an fflush with nothing to write.
Refused ==
  /\ ~ret'.ok
  /\ ret'.call \in {"fread", "fgets"} => ahead = <<>>
  /\ ret'.call = "fseek" => Asked \notin 0 .. Len(content)
  /\ ret'.call = "fflush" => saved = content
  /\ ret'.call \in {"fread", "fgets", "fseek", "ungetc", "fflush"}
  /\ ret'.call = "fseek" \/ UNCHANGED error
  /\ UNCHANGED <<mode, content, pos, ahead, faults>>

\* The card failed, and the caller can tell.
Failed == faults' = faults + 1 /\ (error' \/ ~ret'.ok)

Next ==
  \/ Open \/ Read \/ Write \/ Seek \/ Unget \/ Flush \/ Clear \/ Close \/ Refused \/ Failed

Spec == Init /\ [][Next]_vars
=============================================================================
