------------------------------ MODULE ByteFile ------------------------------
(***************************************************************************)
(* What the documentation of FatFile promises of one file: a sequence of   *)
(* bytes with a position, read and written in order, in pieces that may    *)
(* fail.  Clusters, sectors, flags and the cache do not appear.            *)
(***************************************************************************)
EXTENDS Integers, Sequences

VARIABLES
  limit,      \* the largest size of a file, which never changes
  mode,       \* "closed", "idle", "write", "read"; "error": a call on the open
              \* file failed; "lost": one failed that had given up clusters
  content,    \* the bytes of the file
  size,       \* the length the file has when no write is under way
  position,
  appends,    \* open with O_APPEND
  left,       \* bytes the call still has to move
  got,        \* the bytes the last piece of a read delivered
  faults      \* device accesses that failed so far

vars == <<limit, mode, content, size, position, appends, left, got, faults>>

\* 0 is a byte of unknown value: preallocated, or in a new cluster.
Byte == Nat

Init ==
  /\ mode = "closed" /\ content = <<>> /\ size = 0 /\ position = 0
  /\ appends = FALSE /\ left = 0 /\ got = <<>> /\ faults = 0

\* What a call does to the bytes; how it moves the program is in Next.
AtRest == left' = 0 /\ got' = <<>>
Fault == faults' = faults + 1
NoFault == faults' = faults
Same == UNCHANGED <<content, size>>

Open ==
  /\ AtRest
  /\ content' \in {content, <<>>} /\ size' = Len(content')
  /\ position' \in {0, size'} /\ appends' \in BOOLEAN

\* A close saves the size: the next open finds the same bytes.
Close == AtRest /\ position' = 0 /\ appends' = FALSE /\ Same
\* The entry was not saved, or was spoilt before: nothing is promised of this file.
CloseFails ==
  /\ mode = "idle" => Fault
  /\ AtRest /\ position' = 0 /\ appends' = FALSE
  /\ content' \in Seq(Byte) /\ size' = Len(content')

Remove ==
  /\ AtRest /\ position' = 0 /\ appends' = FALSE
  /\ content' = <<>> /\ size' = 0

Seek == AtRest /\ position' \in 0 .. size /\ Same /\ UNCHANGED appends

Truncate ==
  /\ AtRest /\ UNCHANGED <<position, appends>>
  /\ content' = SubSeq(content, 1, position) /\ size' = position

PreAllocate ==
  /\ AtRest /\ UNCHANGED <<position, appends>>
  /\ content = <<>> /\ size' \in 1 .. limit
  /\ content' = [i \in 1 .. size' |-> 0]

Write ==
  /\ position' = IF appends THEN size ELSE position
  /\ left' \in 1 .. limit - position' /\ got' = <<>>
  /\ Same /\ UNCHANGED appends
\* The content with n bytes b at p, longer by what goes beyond its end.
Overwritten(p, n, b) ==
  [i \in 1 .. (IF p + n > Len(content) THEN p + n ELSE Len(content)) |->
     IF i \in p + 1 .. p + n THEN b ELSE content[i]]
Put ==
  /\ position' \in position + 1 .. position + left /\ left' = left - (position' - position)
  /\ UNCHANGED <<size, appends, got>>
  /\ content' = Overwritten(position, position' - position, content'[position'])
WriteEnd ==
  /\ left = 0 /\ AtRest
  /\ UNCHANGED <<content, position, appends>> /\ size' = Len(content)
\* The file keeps its length, and its bytes outside the range of the write.
WriteFails ==
  /\ AtRest /\ position' = 0 /\ UNCHANGED <<size, appends>>
  /\ content' \in Seq(Byte) /\ Len(content') = size
  /\ \A i \in 1 .. size : i \notin position + 1 .. position + left => content'[i] = content[i]

Read ==
  /\ left' \in 0 .. size - position /\ got' = <<>>
  /\ Same /\ UNCHANGED <<position, appends>>
Get ==
  /\ position' \in position + 1 .. position + left /\ left' = left - (position' - position)
  /\ Same /\ UNCHANGED appends
  /\ got' = SubSeq(content, position + 1, position')
ReadEnd ==
  /\ left = 0 /\ AtRest
  /\ Same /\ UNCHANGED <<position, appends>>

\* Any other call fails and changes no byte; a read only when the device fails.
Fails ==
  /\ mode = "read" => Fault
  /\ AtRest /\ position' = 0 /\ Same /\ UNCHANGED appends
\* A sync, truncate or preAllocate fails after it changed the content.
LateFails ==
  /\ Fault /\ AtRest /\ position' = 0 /\ UNCHANGED appends
  /\ \/ content' = SubSeq(content, 1, position)
     \/ content = <<>> /\ \E n \in 1 .. limit : content' = [i \in 1 .. n |-> 0]
  /\ size' = Len(content')
\* open fails before it has done anything.
OpenFails == Fault /\ AtRest /\ Same /\ UNCHANGED <<position, appends>>
\* truncate, remove or open with O_TRUNC fails while it frees the chain: what is
\* left of the bytes is not known.
Loses ==
  /\ Fault /\ AtRest /\ position' = 0 /\ appends' \in {appends, FALSE}
  /\ content' \in Seq(Byte) /\ size' = Len(content')

Next ==
  LET was == mode is == mode' IN
  /\ UNCHANGED limit
  /\ \/ /\ NoFault
        /\ \/ was = "closed" /\ is = "idle" /\ Open
           \/ was = "idle" /\ is = "idle" /\ (Seek \/ Truncate \/ PreAllocate)
           \/ was = "idle" /\ is = "write" /\ Write
           \/ was = "write" /\ is = "write" /\ Put
           \/ was = "write" /\ is = "idle" /\ WriteEnd
           \/ was = "idle" /\ is = "read" /\ Read
           \/ was = "read" /\ is = "read" /\ Get
           \/ was = "read" /\ is = "idle" /\ ReadEnd
     \/ /\ NoFault \/ Fault
        /\ \/ was = "closed" /\ is = "closed" /\ OpenFails
           \/ was = "write" /\ is = "error" /\ WriteFails
           \/ was \in {"idle", "read", "error"} /\ is = "error" /\ Fails
           \/ was = "idle" /\ is = "error" /\ LateFails
           \/ was \in {"closed", "idle"} /\ is = "lost" /\ Loses
           \/ was \in {"idle", "error"} /\ is = "closed" /\ Close
           \/ was \in {"idle", "error", "lost"} /\ is \in {"closed", "lost"} /\ CloseFails
           \/ was = "idle" /\ is = "closed" /\ Remove
Spec == Init /\ [][Next]_vars
=============================================================================
