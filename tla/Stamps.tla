------------------------------- MODULE Stamps -------------------------------
(***************************************************************************)
(* The times of a file in its directory entry: set when it is created,     *)
(* when it is synchronized after a write, and by timestamp().  A user may  *)
(* supply a clock, FsDateTime::callback.  FAT keeps no access time and the *)
(* time of a write to two seconds; exFAT has a checksum over the entry.    *)
(***************************************************************************)
EXTENDS Numbers, FiniteSets

\* The moments the clock shows, one after the other.
Moment(y, mo, d, h, mi, s) == [year |-> y, month |-> mo, day |-> d, hour |-> h, minute |-> mi, second |-> s]
Clock == <<Moment(2024, 2, 29, 23, 59, 58), Moment(2024, 2, 29, 23, 59, 59), Moment(2024, 3, 1, 0, 0, 0)>>
\* Moments for timestamp(), valid and not.
Moments == {Moment(1980, 1, 1, 0, 0, 1), Moment(2107, 12, 31, 23, 59, 59)}
Invalid == {Moment(1979, 1, 1, 0, 0, 0), Moment(2000, 13, 1, 0, 0, 0), Moment(2000, 1, 0, 0, 0, 0), Moment(2000, 1, 1, 0, 0, 60)}
Packed(m) == Stamp(m.year, m.month, m.day, m.hour, m.minute, m.second, TRUE)
None == [date |-> 0, time |-> 0, ms10 |-> 0]
Default == [date |-> FS_DATE(2023, 1, 1), time |-> FS_TIME(0, 0, 0), ms10 |-> 0]
Kept(fs, stamp, what) ==
  [stamp EXCEPT !.time = IF fs = "fat" /\ what = "access" THEN 0 ELSE @,
                !.ms10 = IF what = "access" \/ (fs = "fat" /\ what = "modify") THEN 0 ELSE @]

\* The checksum is kept as what it was computed from.
Sum(f) == IF f.fs = "exfat" THEN <<f.create, f.access, f.modify>> ELSE <<>>
Now(f) == Packed(Clock[f.now])
\* sync, and syncDir: a dirty entry is written, with the time if there is a clock.
sync(f) ==
  IF ~f.dirty THEN f
  ELSE LET g == [f EXCEPT !.dirty = FALSE,
                          !.modify = IF f.callback THEN Kept(f.fs, Now(f), "modify") ELSE @,
                          !.access = IF f.callback THEN Kept(f.fs, Now(f), "access") ELSE @]
       IN [g EXCEPT !.sum = Sum(g)]
\* open with O_CREAT: an exFAT file is synchronized at once; a FAT file that is created with a
\* clock and neither truncated nor written has no time of modification.
Created(fs, callback, truncate) ==
  LET stamp == IF callback THEN Packed(Clock[1]) ELSE Default
      other == IF callback THEN None ELSE Default
      said == IF fs = "exfat" \/ truncate THEN <<"since", 1>> ELSE <<"nothing">>
      f == [what |-> "stamp", fs |-> fs, callback |-> callback, now |-> 1, dirty |-> fs = "exfat" \/ truncate,
            create |-> stamp, access |-> Kept(fs, other, "access"), modify |-> Kept(fs, other, "modify"),
            sum |-> <<>>, said |-> [create |-> stamp, access |-> said, modify |-> said]]
  IN IF fs = "exfat" THEN sync(f) ELSE f
\* A write makes the entry dirty if the file grows or there is a clock.
Written(f, grows) ==
  IF grows \/ f.callback
  THEN [f EXCEPT !.dirty = TRUE, !.said.access = IF f.callback THEN <<"since", f.now>> ELSE @,
                 !.said.modify = IF f.callback THEN <<"since", f.now>> ELSE @]
  ELSE f
IsValid(m) ==
  /\ m.year \in 1980 .. 2107 /\ m.month \in 1 .. 12 /\ m.day \in 1 .. 31
  /\ m.hour <= 23 /\ m.minute <= 59 /\ m.second <= 59
\* timestamp() synchronizes the file first.
\* Mutant: it does not.
LaterSynced(f) == f
Synced(f) == sync(f)
timestamp(f, flags, m) ==
  LET g == Synced(f) s == Packed(m)
      h == [g EXCEPT !.access = IF "access" \in flags THEN Kept(f.fs, s, "access") ELSE @,
                     !.create = IF "create" \in flags THEN s ELSE @,
                     !.modify = IF "write" \in flags THEN Kept(f.fs, s, "modify") ELSE @,
                     !.said.create = IF "create" \in flags THEN s ELSE @,
                     !.said.access = IF "access" \in flags THEN <<"is", s>> ELSE @,
                     !.said.modify = IF "write" \in flags THEN <<"is", s>> ELSE @]
  IN IF IsValid(m) THEN [h EXCEPT !.sum = Sum(h)] ELSE f
exFatTimestamp(f, flags, m) == timestamp(f, flags, m)

getAccessDateTime(f) == <<f.access.date, IF f.fs = "fat" THEN 0 ELSE f.access.time>>
getCreateDateTime(f) == <<f.create.date, f.create.time>>
getModifyDateTime(f) == <<f.modify.date, f.modify.time>>

\* What may happen to a file: time passes, it is written, synchronized, stamped.
Flags == SUBSET {"access", "create", "write"}
Touched(f) ==
  {[f EXCEPT !.now = n] : n \in {n \in DOMAIN Clock : n = f.now + 1}} \cup {sync(f)}
    \cup {Written(f, grows) : grows \in BOOLEAN}
    \cup {IF f.fs = "fat" THEN timestamp(f, flags, m) ELSE exFatTimestamp(f, flags, m) :
            flags \in Flags, m \in Moments \cup Invalid}

Shown(m) == <<m.date, m.time>>
NotBefore(a, b) == a[1] > b[1] \/ (a[1] = b[1] /\ a[2] >= b[2])
Holds(f, said, shown, Seen(_)) ==
  /\ said[1] = "is" => shown = Seen(Shown(said[2]))
  /\ said[1] = "since" /\ f.callback /\ ~f.dirty => NotBefore(shown, Seen(Shown(Packed(Clock[said[2]]))))
\* A stamp holds until the file is written again, whatever is synchronized later; a file that was
\* written shows a time not before the write; only timestamp() changes the time of creation; the
\* checksum is that of the entry.
StampsHeld(f) ==
  /\ f.sum = Sum(f)
  /\ f.create = f.said.create /\ getCreateDateTime(f) = Shown(f.said.create)
  /\ Holds(f, f.said.modify, getModifyDateTime(f), LAMBDA t : t)
  /\ Holds(f, f.said.access, getAccessDateTime(f), LAMBDA t : IF f.fs = "fat" THEN <<t[1], 0>> ELSE t)
=============================================================================
