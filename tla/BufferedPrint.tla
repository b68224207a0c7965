--------------------------- MODULE BufferedPrint ---------------------------
(***************************************************************************)
(* BufferedPrint: fields gathered in a buffer and written to a file when   *)
(* they do not fit.  The k-th byte made is the number k.  A write that     *)
(* fails may have put a part of its bytes into the file; sync keeps the    *)
(* buffer then, and writes all of it the next time.  printField makes one  *)
(* write, of the text and its terminator, or for a string two: the string, *)
(* then the terminator, whatever became of the string.  It returns what    *)
(* the writes returned, added up.                                          *)
(***************************************************************************)
EXTENDS Integers, Sequences, Functions

CONSTANTS
  BufDim,        \* sizeof(printBuf)
  MaxPrinted,    \* bound on the bytes made
  MaxFailures    \* bound on the writes that fail

VARIABLES
  printFile,       \* what the file holds
  printBuf,      \* the m_in bytes of the buffer
  printed,    \* auxiliary: the bytes of the writes that returned their number
  told,       \* auxiliary: the bytes of the fields whose printField returned their number
  field,      \* a string whose terminator is still to come: the bytes before it, and what its
              \* write returned
  made,       \* how many bytes were made, printed or not
  failures

printVars == <<printFile, printBuf, printed, told, field, made, failures>>
NoField == [open |-> 0, from |-> 0, returned |-> 0]

\* m_wr->write(b) after s is in the file.
Written(s, b) == printFile' = s \o b /\ UNCHANGED failures
Failed(s, b) ==
  /\ failures < MaxFailures /\ failures' = failures + 1
  /\ \E k \in 0 .. Len(b) : printFile' = s \o SubSeq(b, 1, k)

PrintInit ==
  /\ printFile = <<>> /\ printBuf = <<>> /\ printed = {} /\ told = {} /\ field = NoField
  /\ made = 0 /\ failures = 0

\* write, of a field that is as long as the buffer past it.
Fits(b) == printBuf' = printBuf \o b /\ UNCHANGED <<printFile, failures>>
Flushes(b) == Len(b) < BufDim /\ Written(printFile, printBuf) /\ printBuf' = b
\* Mutant: a long field overtakes the buffer.
BypassesFirst(b) == Len(b) >= BufDim /\ Written(printFile, b) /\ UNCHANGED printBuf

Bypasses(b) == Len(b) >= BufDim /\ printBuf' = <<>> /\ Written(printFile \o printBuf, b)

\* write() of n more bytes returns n or 0.
write(n, returned) ==
  LET b == [i \in 1 .. n |-> made + i]
      fits == Len(printBuf) + n <= BufDim
  IN  /\ made + n <= MaxPrinted /\ made' = made + n
      /\ \/ /\ returned = n /\ printed' = printed \cup Range(b)
            /\ IF fits THEN Fits(b) ELSE Flushes(b) \/ Bypasses(b)
         \/ /\ returned = 0 /\ ~fits /\ printed' = printed
            /\ \/ Failed(printFile, printBuf) /\ UNCHANGED printBuf
               \/ n >= BufDim /\ Failed(printFile \o printBuf, b) /\ printBuf' = <<>>
\* The caller gets the count of a field that began after the byte from.
Tells(from, count) ==
  told' = IF count = made' - from THEN told \cup (from + 1 .. made') ELSE told

\* printField of a number or a character, and println: one write.
PrintField == \E n \in 1 .. BufDim + 1 : \E returned \in {0, n} :
  /\ field.open = 0 /\ write(n, returned) /\ Tells(made, returned) /\ UNCHANGED field
\* printField of a string with a terminator: the string, then one or two bytes.
PrintString == \E n \in 1 .. BufDim + 1 : \E returned \in {0, n} :
  /\ field.open = 0 /\ made + n < MaxPrinted
  /\ write(n, returned) /\ UNCHANGED told
  /\ field' = [open |-> 1, from |-> made, returned |-> returned]
PrintTerminator == \E n \in 1 .. 2 : \E returned \in {0, n} :
  /\ field.open = 1 /\ write(n, returned)
  /\ Tells(field.from, field.returned + returned) /\ field' = NoField

sync ==
  /\ field.open = 0
  /\ \/ Written(printFile, printBuf) /\ printBuf' = <<>>
     \/ Failed(printFile, printBuf) /\ UNCHANGED printBuf
  /\ UNCHANGED <<printed, told, field, made>>

PrintNext == PrintField \/ PrintString \/ PrintTerminator \/ sync

PrintSpec == PrintInit /\ [][PrintNext]_printVars

-----------------------------------------------------------------------------
(* Properties.                                                             *)

Held == printFile \o printBuf
First(k) == CHOOSE i \in 1 .. Len(Held) : Held[i] = k /\ \A j \in 1 .. i - 1 : Held[j] # k

\* The bytes of a field whose printField returned their number are in the file or the buffer, in
\* the order they were printed, whatever failed before, in between and after; bytes appear twice
\* only after a failure, whose part is written again.  A return that is only not zero says less:
\* for a string whose write failed it may be the count of the terminator.
PrintedInOrder ==
  /\ told \subseteq printed /\ printed \subseteq Range(Held)
  /\ \A j, k \in Range(Held) : j < k => First(j) < First(k)
  /\ failures = 0 => Len(Held) = made
=============================================================================
