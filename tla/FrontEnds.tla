------------------------------ MODULE FrontEnds ------------------------------
(***************************************************************************)
(* What a program holds in its hands, beside each other: the files and     *)
(* volumes of FsLib, and the three ways to read and write text, a          *)
(* StdioStream, an iostream and a BufferedPrint.  They share nothing; one  *)
(* of them is used.                                                        *)
(***************************************************************************)
EXTENDS FsLib, BufferedPrint, TLC

CONSTANTS
  BufSize, UngetSize, Bytes, MaxSize, MaxFaults,
  Chars, FileSize, PosMax, NegMax

ASSUME StreamsAssumption ==
  /\ {BufSize, UngetSize, MaxSize, MaxFaults, FileSize, PosMax, NegMax, MaxPrinted, MaxFailures}
       \subseteq Nat
  /\ 0 < UngetSize /\ UngetSize < BufSize /\ BufDim \in Nat \ {0}
  /\ Bytes \subseteq Nat /\ Chars \subseteq 0 .. 127
\* Texts that are put: line ends alone and after a character.
Strings == {<<10>>, <<13>>, <<49, 10>>}

VARIABLES
  file, cur, mode, status, held, m_p, m_r, m_w, last, faults, ret,
  kind, binary, chars, place, holes, result

Stdio == INSTANCE StdioStream
Io == INSTANCE IoStream

stdio == <<file, cur, mode, status, held, m_p, m_r, m_w, last, faults>>
text == <<kind, binary, chars, place, holes>>
vars == <<stdio, ret, text, result, printVars, fsVars>>
\* What the last call returned is not part of the state.
View == <<stdio, text, printVars, fsState>>
Symmetry == Permutations(Handles) \cup Permutations(Names)

Init ==
  /\ PrintInit /\ FsInit
  /\ \/ kind \in {"print", "fs"} /\ Stdio!Unused /\ Io!Unused
     \/ kind = "stdio" /\ Stdio!Init /\ Io!Unused
     \/ Io!Init /\ Stdio!Unused

Next ==
  \/ kind = "stdio" /\ Stdio!Next /\ UNCHANGED <<text, result, printVars, fsVars>>
  \/ kind = "print" /\ PrintNext /\ UNCHANGED <<stdio, ret, text, result, fsVars>>
  \/ kind = "fs" /\ FsNext /\ UNCHANGED <<stdio, ret, text, result, printVars>>
  \/ kind \notin {"stdio", "print", "fs"} /\ Io!Next /\ UNCHANGED <<stdio, ret, printVars, fsVars>>

Spec == Init /\ [][Next]_vars

-----------------------------------------------------------------------------
(* Properties.                                                             *)

\* The buffer of a StdioStream does not show: what is read, written, pushed back and saved, and
\* where, is what a file without one would do, whatever the sizes and the turns between reading
\* and writing; bytes are lost only by a call that reports it (fillBuf, flushBuf, fread, write,
\* fseek, fclose).
IsStdio == Stdio!IsStdio

\* Line ends, put-back characters and the scanners' look-ahead of an iostream do not show: every
\* call takes and delivers what it should of the text, a number is the longest prefix that fits
\* its type, and what is put is read back.
IsText == Io!IsText
=============================================================================
