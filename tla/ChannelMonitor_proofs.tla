---------------------- MODULE ChannelMonitor_proofs ----------------------
(***************************************************************************)
(* Parts that have nothing to do with each other, one after the other: the *)
(* shared-memory channel, and of the system monitor the clock probe and    *)
(* what it measures.                                                       *)
(*                                                                         *)
(* The shared-memory channel is safe for every number of writers and       *)
(* readers, every page size and every set of frame sizes: types, mutual    *)
(* exclusion of the writers, and the integrity of committed frames.        *)
(*                                                                         *)
(* The three follow from one inductive invariant, IInv.  Its parts say who *)
(* holds the lock, that the frame being written lies at or after           *)
(* next_write_pos in the page its writer has mapped, that every committed  *)
(* frame lies before next_write_pos, and that the cleaner only took pages  *)
(* before it.                                                              *)
(***************************************************************************)
EXTENDS ShmChannel, ClockProber, SysmonMetrics, FiniteSetTheorems,
        WellFoundedInduction, TLAPS

\* With a process lock, exactly its owner is writing.
LockInv == ~NullLock => \A w \in Writers : Writing(w) <=> lock = w

\* f starts at or after next_write_pos.  The last case is the position a
\* NullLock writer keeps when its frame has filled a page to the end.
AtEnd(f) ==
  \/ f.pg > nwp.pg
  \/ f.pg = nwp.pg /\ f.off >= nwp.off
  \/ f.pg + 1 = nwp.pg /\ nwp.off = 0 /\ f.off = PageSize

\* A NullLock writer's own position is next_write_pos, and it has the page
\* of that position mapped, except between its moving on to a new page and
\* its closing the frame there.
NullOK(w) ==
  /\ wpos[w].off <= PageSize
  /\ wpc[w] # "dead" => AtEnd(wpos[w])
  /\ wpc[w] \in {"idle", "locked", "crossing"} => wpos[w].pg = wpage[w]
  /\ wpc[w] = "aligned" => wpos[w].pg = wpage[w] \/ pend[w].off = 0
NullInv == NullLock => \A w \in Writers : NullOK(w)

\* What a writer knows of its frame at each point of open_frame.
PendOK(w) ==
  /\ Writing(w) => pend[w].size \in Sizes /\ pend[w].id \in FrameIds
  /\ wpc[w] \in {"aligned", "crossing", "opened", "filled"} => AtEnd(pend[w])
  /\ wpc[w] \in {"aligned", "opened", "filled"} => wpage[w] = pend[w].pg
  /\ wpc[w] = "crossing" => pend[w].off = 0
  /\ wpc[w] \in {"opened", "filled"} =>
       /\ pend[w].off + pend[w].size <= PageSize
       /\ mem[pend[w].pg][pend[w].off] = Header(pend[w].size, pend[w].id)
  /\ wpc[w] = "filled" => Intact(pend[w])
PendInv == \A w \in Writers : PendOK(w)

\* The page a running writer has mapped is a file, or was one.
MapOK(w) == wpc[w] \notin {"dead", "loaded"} => wpage[w] \in files \cup lost
MapInv == \A w \in Writers : MapOK(w)

\* Committed frames lie within one page and before next_write_pos.
LogInv == \A i \in 1..Len(log) :
  /\ log[i].pg \in files \cup lost
  /\ log[i].off + log[i].size <= PageSize
  /\ \/ log[i].pg < nwp.pg
     \/ log[i].pg = nwp.pg /\ log[i].off + log[i].size <= nwp.off

\* The cleaner has only taken pages before the one of next_write_pos.
LostInv == \A p \in lost : p < nwp.pg

\* A reader stands in a page that can exist once it has opened one.
ReaderInv == \A r \in Readers :
  /\ rpc[r] = "loaded" => rloc[r] = rpos[r]
  /\ rpc[r] \in {"open", "reading"} => rpos[r].pg \in Pages /\ rloc[r].pg \in Pages

IInv == /\ TypeOK
        /\ LockInv
        /\ NullInv
        /\ PendInv
        /\ MapInv
        /\ LogInv
        /\ LostInv
        /\ ReaderInv
        /\ CommittedIntact

-----------------------------------------------------------------------------
(* Init *)

\* The channel ChannelMeta has just created satisfies IInv.
LEMMA InitInv == Init => IInv
<1> USE ChannelAssumption
<1> SUFFICES ASSUME Init PROVE IInv
  OBVIOUS
<1>1. TypeOK
  <2>1. nwp \in [pg : Nat, off : Offsets]
    BY DEF Init, Norm, Offsets
  <2>2. mem \in [Pages -> [Offsets -> Cell]]
    BY DEF Init, Offsets, Pages, ZeroPage, ZeroCell, Padding, Cell
  <2>3. pend \in [Writers -> Frame]
    BY DEF Init, NoPend, Frame
  <2>4. /\ wpos \in [Writers -> Pos]
        /\ rpos \in [Readers -> Pos]
        /\ rloc \in [Readers -> Pos]
    BY DEF Init, Start, Pos
  <2>5. log \in Seq([pg : Pages, off : Offsets, size : 1..PageSize, id : FrameIds])
    BY DEF Init
  <2>6. last \in [Readers -> Seq(0..MaxOpens)]
    BY DEF Init
  <2>. QED
    BY <2>1, <2>2, <2>3, <2>4, <2>5, <2>6 DEF Init, TypeOK, Pages
<1>2. LockInv /\ PendInv /\ MapInv
  BY DEF Init, LockInv, PendInv, PendOK, MapInv, MapOK, Writing
<1>3. NullInv
  BY DEF Init, NullInv, NullOK, Start
<1>4. LogInv /\ LostInv /\ CommittedIntact
  BY DEF Init, LogInv, LostInv, CommittedIntact
<1>5. ReaderInv
  BY DEF Init, ReaderInv
<1>. QED
  BY <1>1, <1>2, <1>3, <1>4, <1>5 DEF IInv

-----------------------------------------------------------------------------
(* Readers and the cleaner *)

\* The parts of IInv that do not speak of readers.
WriterInv == LockInv /\ NullInv /\ PendInv /\ MapInv /\ LogInv /\ LostInv /\ CommittedIntact

\* IInv says of writers, log and cleaner only what these variables hold.
LEMMA ReadersLeaveWriters ==
  ASSUME WriterInv, UNCHANGED <<nwp, files, mem, lost, wvars, log>>
  PROVE  WriterInv'
<1>1. LockInv' /\ NullInv' /\ MapInv'
  BY DEF WriterInv, LockInv, NullInv, NullOK, MapInv, MapOK, Writing, AtEnd, wvars
<1>2. PendInv'
  BY DEF WriterInv, PendInv, PendOK, Writing, AtEnd, Intact, wvars
<1>3. LogInv' /\ LostInv' /\ CommittedIntact'
  BY DEF WriterInv, LogInv, LostInv, CommittedIntact, Intact
<1>. QED
  BY <1>1, <1>2, <1>3 DEF WriterInv

\* A reader only moves its own position and its entry in the reader table.
LEMMA ReaderStepInv ==
  ASSUME IInv, NEW r \in Readers, ReaderStep(r)
  PROVE  IInv'
<1> USE ChannelAssumption
<1>1. UNCHANGED <<nwp, files, mem, lost, wvars, log>>
  BY DEF ReaderStep, AddReader, ReaderLoad, ReaderOpen, NextFrame, NextPage, NextFill,
         NextDeliver, ReleaseOldPages, ReaderExit, RemoveReader
<1>2. WriterInv'
  BY <1>1, ReadersLeaveWriters DEF IInv, WriterInv
<1>3. TypeOK /\ ReaderInv
  BY DEF IInv
<1>4. nwp \in Pos /\ rpos[r] \in Pos /\ rloc[r] \in Pos
  BY <1>3 DEF TypeOK, Pos, Offsets
<1>5. TypeOK' /\ ReaderInv'
  <2>1. CASE AddReader(r)
    BY <1>1, <1>3, <2>1 DEF AddReader, TypeOK, ReaderInv, wvars
  <2>2. CASE ReaderLoad(r)
    <3>1. /\ rpos' \in [Readers -> Pos]
          /\ rloc' \in [Readers -> Pos]
          /\ cur' \in [Readers -> Nat]
      BY <1>3, <1>4, <2>2 DEF ReaderLoad, TypeOK
    <3>2. TypeOK'
      BY <1>1, <1>3, <2>2, <3>1 DEF ReaderLoad, RGoto, TypeOK, wvars
    <3>3. ReaderInv'
      BY <1>3, <2>2 DEF ReaderLoad, RGoto, TypeOK, ReaderInv
    <3>. QED BY <3>2, <3>3
  <2>3. CASE ReaderOpen(r)
    BY <1>1, <1>3, <2>3 DEF ReaderOpen, RGoto, CanOpen, TypeOK, ReaderInv, wvars
  <2>4. CASE NextFrame(r)
    BY <1>1, <1>3, <2>4 DEF NextFrame, RGoto, TypeOK, ReaderInv, wvars
  <2>5. CASE NextPage(r)
    <3>1. [pg |-> rloc[r].pg + 1, off |-> 0] \in Pos
      BY <1>4 DEF Pos
    <3>2. CASE CanOpen(rloc[r].pg + 1)
      <4>1. /\ rpos' = [rpos EXCEPT ![r] = [pg |-> rloc[r].pg + 1, off |-> 0]]
            /\ rloc' = [rloc EXCEPT ![r] = [pg |-> rloc[r].pg + 1, off |-> 0]]
            /\ UNCHANGED <<reg, rpc, cur, last, opens, crashes, exits>>
        BY <2>5, <3>2 DEF NextPage
      <4>2. rpos' \in [Readers -> Pos] /\ rloc' \in [Readers -> Pos]
        BY <1>3, <3>1, <4>1 DEF TypeOK
      <4>3. rloc[r].pg + 1 \in Pages
        BY <1>3, <3>2 DEF CanOpen, TypeOK
      <4>4. ReaderInv'
        BY <1>3, <2>5, <4>1, <4>3 DEF NextPage, TypeOK, ReaderInv
      <4>. QED
        BY <1>1, <1>3, <4>1, <4>2, <4>4 DEF TypeOK, wvars
    <3>3. CASE ~CanOpen(rloc[r].pg + 1)
      <4>1. /\ rloc' = [rloc EXCEPT ![r] = rpos[r]]
            /\ rpc' = [rpc EXCEPT ![r] = "open"]
            /\ UNCHANGED <<reg, rpos, cur, last, opens, crashes, exits>>
        BY <2>5, <3>3 DEF NextPage, RGoto
      <4>2. ReaderInv'
        BY <1>3, <2>5, <4>1 DEF NextPage, TypeOK, ReaderInv
      <4>. QED
        BY <1>1, <1>3, <1>4, <4>1, <4>2 DEF TypeOK, wvars
    <3>. QED BY <3>2, <3>3
  <2>6. CASE NextFill(r)
    <3>0. rloc[r].pg \in Pages /\ rloc[r].off \in Offsets
      BY <1>3, <1>4, <2>6 DEF NextFill, ReaderInv, Pos, Offsets
    <3>1. HeaderAt(r) \in Cell
      BY <1>3, <3>0 DEF HeaderAt, TypeOK
    <3>2. [pg |-> rloc[r].pg, off |-> rloc[r].off + HeaderAt(r).size] \in Pos
      BY <1>4, <3>1 DEF Pos, Cell
    <3>3. rloc' \in [Readers -> Pos]
      BY <1>3, <1>4, <2>6, <3>2, ZenonT(60) DEF NextFill, TypeOK
    <3>4. TypeOK'
      BY <1>1, <1>3, <2>6, <3>3 DEF NextFill, RGoto, TypeOK, wvars
    <3>5. ReaderInv'
      BY <1>3, <2>6 DEF NextFill, RGoto, TypeOK, ReaderInv
    <3>. QED BY <3>4, <3>5
  <2>7. CASE NextDeliver(r)
    <3>0. rloc[r].pg \in Pages /\ rloc[r].off \in Offsets
      BY <1>3, <1>4, <2>7 DEF NextDeliver, ReaderInv, Pos, Offsets
    <3>1. HeaderAt(r) \in Cell
      BY <1>3, <3>0 DEF HeaderAt, TypeOK
    <3>2. [pg |-> rloc[r].pg, off |-> rloc[r].off + HeaderAt(r).size] \in Pos
      BY <1>4, <3>1 DEF Pos, Cell
    <3>3. FrameAt(r) \in 0..MaxOpens
      BY <3>1 DEF FrameAt, Cell
    <3>4. <<FrameAt(r)>> \in Seq(0..MaxOpens)
      BY <3>3
    <3>5. last' \in [Readers -> Seq(0..MaxOpens)]
      BY <1>3, <2>7, <3>4 DEF NextDeliver, TypeOK
    <3>6. /\ rpos' \in [Readers -> Pos]
          /\ rloc' \in [Readers -> Pos]
      BY <1>3, <2>7, <3>2 DEF NextDeliver, TypeOK
    <3>61. cur' \in [Readers -> Nat]
      BY <1>3, <2>7 DEF NextDeliver, TypeOK
    <3>7. TypeOK'
      BY <1>1, <1>3, <2>7, <3>5, <3>6, <3>61 DEF NextDeliver, RGoto, TypeOK, wvars
    <3>8. ReaderInv'
      BY <1>3, <2>7 DEF NextDeliver, RGoto, TypeOK, ReaderInv
    <3>. QED BY <3>7, <3>8
  <2>8. CASE ReleaseOldPages(r)
    BY <1>1, <1>3, <1>4, <2>8 DEF ReleaseOldPages, TypeOK, ReaderInv, wvars, Pos
  <2>9. CASE ReaderExit(r)
    <3>1. Start \in Pos /\ <<>> \in Seq(0..MaxOpens)
      BY DEF Start, Pos
    <3>2. /\ rpos' \in [Readers -> Pos]
          /\ rloc' \in [Readers -> Pos]
          /\ last' \in [Readers -> Seq(0..MaxOpens)]
      BY <1>3, <2>9, <3>1 DEF ReaderExit, TypeOK
    <3>21. cur' \in [Readers -> Nat] /\ exits' \in 0..MaxExits
      BY <1>3, <2>9 DEF ReaderExit, TypeOK
    <3>3. TypeOK'
      BY <1>1, <1>3, <2>9, <3>2, <3>21 DEF ReaderExit, RGoto, TypeOK, wvars
    <3>4. ReaderInv'
      BY <1>3, <2>9 DEF ReaderExit, RGoto, TypeOK, ReaderInv
    <3>. QED BY <3>3, <3>4
  <2>10. CASE RemoveReader(r)
    BY <1>1, <1>3, <2>10 DEF RemoveReader, RGoto, TypeOK, ReaderInv, wvars
  <2>. QED
    BY <2>1, <2>2, <2>3, <2>4, <2>5, <2>6, <2>7, <2>8, <2>9, <2>10 DEF ReaderStep
<1>. QED
  BY <1>2, <1>5 DEF IInv, WriterInv

\* PageCleaner::cleanup takes pages before next_write_pos only.
LEMMA CleanupInv == IInv /\ Cleanup => IInv'
<1> SUFFICES ASSUME IInv, Cleanup PROVE IInv'
  OBVIOUS
<1> USE ChannelAssumption
<1>1. PICK gone \in SUBSET {p \in files : BelowFloor(p) /\ Expired(p)} :
        /\ files' = files \ gone
        /\ lost' = lost \cup gone
        /\ UNCHANGED <<nwp, mem, wvars, rvars, log, opens, crashes, exits>>
  BY DEF Cleanup
<1>2. \A p \in gone : p \in files /\ p < nwp.pg
  BY <1>1 DEF BelowFloor
<1>3. TypeOK'
  BY <1>1, <1>2 DEF IInv, TypeOK, wvars, rvars
<1>4. LockInv' /\ NullInv' /\ ReaderInv'
  BY <1>1 DEF IInv, LockInv, NullInv, NullOK, ReaderInv, Writing, AtEnd, wvars, rvars
<1>5. PendInv'
  BY <1>1 DEF IInv, PendInv, PendOK, Writing, AtEnd, Intact, wvars
<1>6. MapInv' /\ LogInv' /\ LostInv'
  BY <1>1, <1>2 DEF IInv, MapInv, MapOK, LogInv, LostInv, wvars
<1>7. CommittedIntact'
  BY <1>1 DEF IInv, CommittedIntact, Intact
<1>. QED
  BY <1>3, <1>4, <1>5, <1>6, <1>7 DEF IInv

-----------------------------------------------------------------------------
(* Facts about the writers' steps *)

\* No writer touches a reader's state.
LEMMA WritersLeaveReaders ==
  ASSUME ReaderInv, UNCHANGED rvars
  PROVE  ReaderInv'
BY DEF ReaderInv, rvars

\* The writer that is writing is alone.
LEMMA WriterAlone ==
  ASSUME IInv, NEW v \in Writers, NEW w \in Writers, Writing(v), Writing(w)
  PROVE  v = w
<1>1. CASE NullLock
  BY <1>1, ChannelAssumption
<1>2. CASE ~NullLock
  BY <1>2 DEF IInv, LockInv
<1>. QED
  BY <1>1, <1>2, ChannelAssumption

\* get_page keeps the contents of every page that has a file.
LEMMA GetPageKeeps ==
  ASSUME TypeOK, NEW p, GetPage(p)
  PROVE  /\ p \in Pages /\ p \in files'
         /\ files \subseteq files' /\ files' \subseteq Pages
         /\ mem' \in [Pages -> [Offsets -> Cell]]
         /\ \A q \in files : mem'[q] = mem[q]
<1> USE ChannelAssumption
<1>1. ZeroPage \in [Offsets -> Cell]
  BY DEF ZeroPage, ZeroCell, Cell
<1>. QED
  BY <1>1 DEF GetPage, TypeOK

\* A page at or after next_write_pos that a running writer has mapped is a file.
LEMMA PendPageHasFile ==
  ASSUME IInv, NEW w \in Writers, wpc[w] \in {"opened", "filled"}
  PROVE  pend[w].pg \in files
<1> USE ChannelAssumption
<1>1. /\ pend[w] \in Frame /\ nwp \in [pg : Nat, off : Offsets]
      /\ wpage[w] \in files \cup lost /\ wpage[w] = pend[w].pg /\ AtEnd(pend[w])
      /\ pend[w].off + pend[w].size <= PageSize /\ pend[w].size \in Sizes
  BY DEF IInv, TypeOK, PendInv, PendOK, MapInv, MapOK, Writing
<1>2. ~(pend[w].pg < nwp.pg)
  BY <1>1 DEF AtEnd, Frame, Offsets
<1>. QED
  BY <1>1, <1>2 DEF IInv, LostInv

\* What open_frame and the writer write lands behind every committed frame.
LEMMA WriteBehindLog ==
  ASSUME IInv, NEW w \in Writers, NEW i \in 1..Len(log),
         wpc[w] \in {"aligned", "opened"},
         pend[w].off < PageSize,
         UNCHANGED log,
         \A p \in Pages, o \in Offsets :
           p # wpage[w] \/ o < pend[w].off => mem'[p][o] = mem[p][o],
         Intact(log[i])
  PROVE  Intact(log[i])'
<1> USE ChannelAssumption
<1>1. /\ pend[w] \in Frame /\ nwp \in [pg : Nat, off : Offsets]
      /\ wpage[w] = pend[w].pg /\ AtEnd(pend[w])
  BY DEF IInv, TypeOK, PendInv, PendOK
<1> DEFINE S == [pg : Pages, off : Offsets, size : 1..PageSize, id : FrameIds]
<1>0. log[i] \in S
  <2>1. log \in Seq(S)
    BY DEF IInv, TypeOK
  <2>. HIDE DEF S
  <2>. QED
    BY <2>1
<1>2. /\ log[i] \in S
      /\ log[i].off + log[i].size <= PageSize
      /\ \/ log[i].pg < nwp.pg
         \/ log[i].pg = nwp.pg /\ log[i].off + log[i].size <= nwp.off
  BY <1>0 DEF IInv, LogInv
<1>3. \A o \in Offsets : o >= log[i].off /\ o < log[i].off + log[i].size
                        => mem'[log[i].pg][o] = mem[log[i].pg][o]
  <2> SUFFICES ASSUME NEW o \in Offsets, o >= log[i].off, o < log[i].off + log[i].size
               PROVE  log[i].pg # wpage[w] \/ o < pend[w].off
    BY <1>2
  <2>1. /\ pend[w].pg \in Nat /\ pend[w].off \in Nat /\ nwp.pg \in Nat /\ nwp.off \in Nat
        /\ log[i].pg \in Nat /\ log[i].off \in Nat /\ log[i].size \in Nat /\ o \in Nat
    <3>1. pend[w].pg \in Nat /\ pend[w].off \in Nat
      BY <1>1 DEF Frame, Offsets, Pages
    <3>2. nwp.pg \in Nat /\ nwp.off \in Nat
      BY <1>1 DEF Offsets
    <3>3. log[i].pg \in Nat /\ log[i].off \in Nat /\ log[i].size \in Nat
      BY <1>2 DEF Offsets, Pages
    <3>4. o \in Nat
      BY DEF Offsets
    <3>. QED
      BY <3>1, <3>2, <3>3, <3>4
  <2>. QED
    BY <1>1, <1>2, <2>1 DEF AtEnd
<1>4. mem'[log[i].pg][log[i].off] = mem[log[i].pg][log[i].off]
  BY <1>2, <1>3 DEF Offsets
<1>. QED
  BY <1>2, <1>3, <1>4 DEF Intact, Offsets

\* Nothing but memory changed for the committed frames.
LEMMA LogKept ==
  ASSUME IInv, UNCHANGED <<nwp, lost, log>>, files \subseteq files',
         \A i \in 1..Len(log) : log[i].pg \notin lost /\ Intact(log[i]) => Intact(log[i])'
  PROVE  LogInv' /\ LostInv' /\ CommittedIntact'
<1>1. LogInv' /\ LostInv'
  BY DEF IInv, LogInv, LostInv
<1>2. CommittedIntact'
  BY DEF IInv, CommittedIntact
<1>. QED
  BY <1>1, <1>2

\* Committed frames survive the creation of a page.
LEMMA LogSurvivesGetPage ==
  ASSUME IInv, NEW p, GetPage(p), UNCHANGED <<nwp, lost, log>>
  PROVE  LogInv' /\ LostInv' /\ CommittedIntact'
<1>1. files \subseteq files' /\ \A q \in files : mem'[q] = mem[q]
  BY GetPageKeeps DEF IInv
<1>2. ASSUME NEW i \in 1..Len(log), log[i].pg \notin lost, Intact(log[i])
      PROVE  Intact(log[i])'
  BY <1>1, <1>2 DEF IInv, LogInv, Intact
<1>. QED
  BY <1>1, <1>2, LogKept

\* What IInv says of one writer.
WriterOK(w) == PendOK(w) /\ MapOK(w) /\ (NullLock => NullOK(w))

\* A step of one writer leaves what IInv says of another one.
LEMMA OtherKept ==
  ASSUME IInv, NEW v \in Writers, UNCHANGED <<nwp, lost>>, files \subseteq files',
         wpc'[v] = wpc[v], wpage'[v] = wpage[v], wpos'[v] = wpos[v], pend'[v] = pend[v],
         wpc[v] \in {"opened", "filled"} => mem'[pend[v].pg] = mem[pend[v].pg]
  PROVE  WriterOK(v)'
<1>1. PendOK(v) /\ MapOK(v) /\ (NullLock => NullOK(v))
  BY DEF IInv, PendInv, MapInv, NullInv
<1>2. PendOK(v)'
  BY <1>1 DEF PendOK, Writing, AtEnd, Intact
<1>3. MapOK(v)'
  BY <1>1 DEF MapOK
<1>4. NullLock => NullOK(v)'
  BY <1>1 DEF NullOK, AtEnd
<1>. QED
  BY <1>2, <1>3, <1>4 DEF WriterOK

\* The parts of IInv, put together again.
LEMMA IInvParts ==
  ASSUME TypeOK', LockInv', ReaderInv', LogInv' /\ LostInv' /\ CommittedIntact',
         \A w \in Writers : WriterOK(w)'
  PROVE  IInv'
BY DEF IInv, WriterOK, NullInv, PendInv, MapInv

-----------------------------------------------------------------------------
(* Writer::create *)

\* Writer::create reads next_write_pos.
LEMMA CreateLoadInv ==
  ASSUME IInv, NEW w \in Writers, CreateLoad(w)
  PROVE  IInv'
<1> USE ChannelAssumption
<1>0. TypeOK /\ LockInv /\ WriterOK(w)
  BY DEF IInv, WriterOK, NullInv, PendInv, MapInv
<1>1. TypeOK'
  <2>1. nwp \in Pos
    BY <1>0 DEF TypeOK, Pos, Offsets
  <2>2. wpos' \in [Writers -> Pos]
    BY <1>0, <2>1 DEF CreateLoad, TypeOK
  <2>. QED
    BY <1>0, <2>2 DEF CreateLoad, Goto, TypeOK, rvars
<1>2. LockInv'
  BY <1>0 DEF CreateLoad, Goto, TypeOK, LockInv, Writing
<1>3. ReaderInv'
  BY WritersLeaveReaders DEF IInv, CreateLoad
<1>4. LogInv' /\ LostInv' /\ CommittedIntact'
  BY DEF CreateLoad, IInv, LogInv, LostInv, CommittedIntact, Intact
<1>5. WriterOK(w)'
  BY <1>0 DEF CreateLoad, Goto, TypeOK, WriterOK, PendOK, MapOK, NullOK, Writing, AtEnd, Offsets
<1>6. ASSUME NEW v \in Writers, v # w PROVE WriterOK(v)'
  BY <1>0, <1>6, OtherKept DEF CreateLoad, Goto, TypeOK
<1>. QED
  BY <1>1, <1>2, <1>3, <1>4, <1>5, <1>6, IInvParts

\* Writer::create maps its page.
LEMMA CreateOpenInv ==
  ASSUME IInv, NEW w \in Writers, CreateOpen(w)
  PROVE  IInv'
<1> USE ChannelAssumption
<1>0. TypeOK /\ LockInv /\ WriterOK(w)
  BY DEF IInv, WriterOK, NullInv, PendInv, MapInv
<1>1. /\ wpos[w].pg \in Pages /\ wpos[w].pg \in files'
      /\ files \subseteq files' /\ files' \subseteq Pages
      /\ mem' \in [Pages -> [Offsets -> Cell]]
      /\ \A q \in files : mem'[q] = mem[q]
  BY <1>0, GetPageKeeps DEF CreateOpen
<1>2. TypeOK'
  BY <1>0, <1>1 DEF CreateOpen, Goto, TypeOK, rvars
<1>3. LockInv'
  BY <1>0 DEF CreateOpen, Goto, TypeOK, LockInv, Writing
<1>4. ReaderInv'
  BY WritersLeaveReaders DEF IInv, CreateOpen
<1>5. LogInv' /\ LostInv' /\ CommittedIntact'
  BY LogSurvivesGetPage DEF CreateOpen
<1>6. WriterOK(w)'
  BY <1>0, <1>1 DEF CreateOpen, Goto, TypeOK, WriterOK, PendOK, MapOK, NullOK, Writing, AtEnd
<1>7. ASSUME NEW v \in Writers, v # w PROVE WriterOK(v)'
  <2>1. wpc[v] \in {"opened", "filled"} => mem'[pend[v].pg] = mem[pend[v].pg]
    BY <1>1, PendPageHasFile
  <2>. QED
    BY <1>0, <1>1, <1>7, <2>1, OtherKept DEF CreateOpen, Goto, TypeOK
<1>. QED
  BY <1>2, <1>3, <1>4, <1>5, <1>6, <1>7, IInvParts

\* Writer::create throws, or the process dies, at any point.
LEMMA EndInv ==
  ASSUME IInv, NEW w \in Writers, CreateFail(w) \/ Crash(w)
  PROVE  IInv'
<1> USE ChannelAssumption
<1>0. TypeOK /\ LockInv /\ WriterOK(w)
  BY DEF IInv, WriterOK, NullInv, PendInv, MapInv
<1>1. TypeOK'
  <2>1. pend' \in [Writers -> Frame]
    <3>1. NoPend \in Frame
      BY DEF NoPend, Frame
    <3>. QED
      BY <1>0, <3>1 DEF CreateFail, Crash, TypeOK
  <2>2. crashes' \in 0..MaxCrashes /\ lock' \in Writers \cup {None}
    BY <1>0 DEF CreateFail, Crash, Unlock, TypeOK
  <2>. QED
    BY <1>0, <2>1, <2>2 DEF CreateFail, Crash, Goto, TypeOK, rvars
<1>2. LockInv'
  BY <1>0 DEF CreateFail, Crash, Goto, Unlock, TypeOK, LockInv, Writing
<1>3. ReaderInv'
  BY WritersLeaveReaders DEF IInv, CreateFail, Crash
<1>4. LogInv' /\ LostInv' /\ CommittedIntact'
  BY DEF CreateFail, Crash, IInv, LogInv, LostInv, CommittedIntact, Intact
<1>5. WriterOK(w)'
  BY <1>0 DEF CreateFail, Crash, Goto, TypeOK, WriterOK, PendOK, MapOK, NullOK, Writing
<1>6. ASSUME NEW v \in Writers, v # w PROVE WriterOK(v)'
  BY <1>0, <1>6, OtherKept DEF CreateFail, Crash, Goto, TypeOK
<1>. QED
  BY <1>1, <1>2, <1>3, <1>4, <1>5, <1>6, IInvParts

-----------------------------------------------------------------------------
(* Writer::open_frame and close_frame *)

\* open_frame takes the lock.
LEMMA OpenLockInv ==
  ASSUME IInv, NEW w \in Writers, NEW size \in Sizes, OpenLock(w, size)
  PROVE  IInv'
<1> USE ChannelAssumption
<1>0. TypeOK /\ LockInv /\ WriterOK(w)
  BY DEF IInv, WriterOK, NullInv, PendInv, MapInv
<1>1. TypeOK'
  <2>1. opens + 1 \in FrameIds /\ opens' \in 0..MaxOpens
    BY <1>0 DEF OpenLock, TypeOK, FrameIds
  <2>2. [pg |-> 0, off |-> 0, size |-> size, id |-> opens + 1] \in Frame
    BY <2>1 DEF Frame, FrameIds
  <2>3. pend' \in [Writers -> Frame]
    BY <1>0, <2>2 DEF OpenLock, TypeOK
  <2>4. lock' \in Writers \cup {None}
    BY <1>0 DEF OpenLock, Lock, TypeOK
  <2>. QED
    BY <1>0, <2>1, <2>3, <2>4 DEF OpenLock, Goto, TypeOK, rvars
<1>2. LockInv'
  BY <1>0 DEF OpenLock, Goto, Lock, TypeOK, LockInv, Writing
<1>3. ReaderInv'
  BY WritersLeaveReaders DEF IInv, OpenLock
<1>4. LogInv' /\ LostInv' /\ CommittedIntact'
  BY DEF OpenLock, IInv, LogInv, LostInv, CommittedIntact, Intact
<1>5. WriterOK(w)'
  <2>1. wpc'[w] = "locked" /\ pend'[w].size = size /\ pend'[w].id = opens + 1
    BY <1>0 DEF OpenLock, Goto, TypeOK
  <2>2. opens + 1 \in FrameIds
    BY <1>0 DEF OpenLock, TypeOK, FrameIds
  <2>3. PendOK(w)'
    BY <2>1, <2>2 DEF PendOK, Writing, FrameIds
  <2>4. MapOK(w)' /\ (NullLock => NullOK(w)')
    BY <1>0, <2>1 DEF OpenLock, TypeOK, WriterOK, MapOK, NullOK, AtEnd
  <2>. QED
    BY <2>3, <2>4 DEF WriterOK
<1>6. ASSUME NEW v \in Writers, v # w PROVE WriterOK(v)'
  BY <1>0, <1>6, OtherKept DEF OpenLock, Goto, TypeOK
<1>. QED
  BY <1>1, <1>2, <1>3, <1>4, <1>5, <1>6, IInvParts

\* open_frame takes its position and maps the page of it.
LEMMA OpenAlignInv ==
  ASSUME IInv, NEW w \in Writers, OpenAlign(w)
  PROVE  IInv'
<1> USE ChannelAssumption
<1>0. TypeOK /\ LockInv /\ WriterOK(w)
  BY DEF IInv, WriterOK, NullInv, PendInv, MapInv
<1>a. Writing(w) /\ \A v \in Writers : v # w => ~Writing(v)
  BY WriterAlone DEF OpenAlign, Writing
<1>b. /\ files \subseteq files' /\ files' \subseteq Pages
      /\ mem' \in [Pages -> [Offsets -> Cell]]
      /\ wpage' \in [Writers -> Pages]
      /\ LogInv' /\ LostInv' /\ CommittedIntact'
  <2>1. CASE NeedsRealign(w)
    <3>1. GetPage(nwp.pg) /\ wpage' = [wpage EXCEPT ![w] = nwp.pg]
      BY <2>1 DEF OpenAlign
    <3>. QED
      BY <1>0, <3>1, GetPageKeeps, LogSurvivesGetPage DEF OpenAlign, TypeOK
  <2>2. CASE ~NeedsRealign(w)
    BY <1>0, <2>2 DEF OpenAlign, TypeOK, IInv, LogInv, LostInv, CommittedIntact, Intact
  <2>. QED BY <2>1, <2>2
<1>c. WritePos(w) \in Pos /\ WritePos(w).off \in 0..PageSize /\ AtEnd(WritePos(w))
  <2>1. CASE NullLock
    BY <1>0, <2>1 DEF OpenAlign, WritePos, WriterOK, NullOK, TypeOK, Pos, AtEnd
  <2>2. CASE ~NullLock
    BY <1>0, <2>2 DEF WritePos, TypeOK, Pos, Offsets, AtEnd
  <2>. QED BY <2>1, <2>2
<1>d. wpage'[w] = WritePos(w).pg /\ wpage'[w] \in files' \cup lost
  <2>1. CASE NeedsRealign(w)
    <3>1. GetPage(nwp.pg) /\ wpage' = [wpage EXCEPT ![w] = nwp.pg]
      BY <2>1 DEF OpenAlign
    <3>2. nwp.pg \in files'
      BY <1>0, <3>1, GetPageKeeps
    <3>. QED
      BY <1>0, <2>1, <3>1, <3>2 DEF NeedsRealign, WritePos, TypeOK
  <2>2. CASE ~NeedsRealign(w)
    BY <1>0, <1>b, <2>2 DEF OpenAlign, NeedsRealign, WritePos, WriterOK, MapOK, NullOK
  <2>. QED BY <2>1, <2>2
<1>e. /\ pend[w] \in Frame
      /\ pend'[w] = [pg |-> WritePos(w).pg, off |-> WritePos(w).off,
                     size |-> pend[w].size, id |-> pend[w].id]
      /\ wpc'[w] = "aligned"
  BY <1>0 DEF OpenAlign, Goto, TypeOK
<1>1. TypeOK'
  <2>1. pend' \in [Writers -> Frame]
    <3>1. [pg |-> WritePos(w).pg, off |-> WritePos(w).off,
           size |-> pend[w].size, id |-> pend[w].id] \in Frame
      BY <1>c, <1>e DEF Frame, Pos
    <3>. QED
      BY <1>0, <3>1 DEF OpenAlign, TypeOK
  <2>. QED
    BY <1>0, <1>b, <2>1 DEF OpenAlign, Goto, TypeOK, rvars
<1>2. LockInv'
  BY <1>0 DEF OpenAlign, Goto, TypeOK, LockInv, Writing
<1>3. ReaderInv'
  BY WritersLeaveReaders DEF IInv, OpenAlign
<1>4. LogInv' /\ LostInv' /\ CommittedIntact'
  BY <1>b
<1>5. WriterOK(w)'
  <2>1. PendOK(w)'
    BY <1>0, <1>a, <1>c, <1>d, <1>e DEF OpenAlign, WriterOK, PendOK, Writing, AtEnd, FrameIds
  <2>2. MapOK(w)'
    BY <1>d DEF OpenAlign, MapOK
  <2>3. NullLock => NullOK(w)'
    BY <1>0, <1>d, <1>e DEF OpenAlign, WritePos, WriterOK, NullOK, AtEnd
  <2>. QED
    BY <2>1, <2>2, <2>3 DEF WriterOK
<1>6. ASSUME NEW v \in Writers, v # w PROVE WriterOK(v)'
  <2>1. wpc[v] \notin {"opened", "filled"}
    BY <1>a, <1>6 DEF Writing
  <2>. QED
    BY <1>0, <1>b, <1>6, <2>1, OtherKept DEF OpenAlign, Goto, TypeOK
<1>. QED
  BY <1>1, <1>2, <1>3, <1>4, <1>5, <1>6, IInvParts

\* open_frame pads the page its frame does not fit.
LEMMA OpenPadInv ==
  ASSUME IInv, NEW w \in Writers, OpenPad(w)
  PROVE  IInv'
<1> USE ChannelAssumption
<1>0. TypeOK /\ LockInv /\ WriterOK(w)
  BY DEF IInv, WriterOK, NullInv, PendInv, MapInv
<1>a. Writing(w) /\ \A v \in Writers : v # w => ~Writing(v)
  BY WriterAlone DEF OpenPad, Writing
<1>b. /\ pend[w] \in Frame /\ nwp \in [pg : Nat, off : Offsets] /\ wpage[w] \in Pages
      /\ pend'[w] = [pg |-> pend[w].pg + 1, off |-> 0, size |-> pend[w].size, id |-> pend[w].id]
      /\ wpc'[w] = "crossing"
      /\ AtEnd(pend[w]) /\ pend[w].size \in Sizes
  BY <1>0, <1>a DEF OpenPad, Goto, TypeOK, WriterOK, PendOK
<1>c. mem' \in [Pages -> [Offsets -> Cell]]
  <2>1. CASE Remaining(w) >= 1
    <3>1. Padding(Remaining(w)) \in Cell
      BY <1>b, <2>1 DEF Padding, Remaining, Cell, Frame
    <3>2. mem' = [mem EXCEPT ![wpage[w]] = [@ EXCEPT ![pend[w].off] = Padding(Remaining(w))]]
      BY <2>1 DEF OpenPad
    <3>. QED
      BY <1>0, <1>b, <3>1, <3>2 DEF TypeOK
  <2>2. CASE ~(Remaining(w) >= 1)
    BY <1>0, <2>2 DEF OpenPad, TypeOK
  <2>. QED BY <2>1, <2>2
<1>1. TypeOK'
  <2>1. [pg |-> pend[w].pg + 1, off |-> 0, size |-> pend[w].size, id |-> pend[w].id] \in Frame
    BY <1>b DEF Frame
  <2>2. pend' \in [Writers -> Frame]
    BY <1>0, <2>1 DEF OpenPad, TypeOK
  <2>. QED
    BY <1>0, <1>c, <2>2 DEF OpenPad, Goto, TypeOK, rvars
<1>2. LockInv'
  BY <1>0 DEF OpenPad, Goto, TypeOK, LockInv, Writing
<1>3. ReaderInv'
  BY WritersLeaveReaders DEF IInv, OpenPad
<1>4. LogInv' /\ LostInv' /\ CommittedIntact'
  <2>1. ASSUME NEW i \in 1..Len(log), Intact(log[i]) PROVE Intact(log[i])'
    <3>1. CASE Remaining(w) >= 1
      <4>1. pend[w].off < PageSize
        BY <1>b, <3>1 DEF Remaining, Frame
      <4>2. \A p \in Pages, o \in Offsets :
              p # wpage[w] \/ o < pend[w].off => mem'[p][o] = mem[p][o]
        <5>1. mem' = [mem EXCEPT ![wpage[w]] =
                        [@ EXCEPT ![pend[w].off] = Padding(Remaining(w))]]
          BY <3>1 DEF OpenPad
        <5>2. pend[w].off \in Nat
          BY <1>b DEF Frame
        <5>3. ASSUME NEW p \in Pages, NEW o \in Offsets, p # wpage[w] \/ o < pend[w].off
              PROVE  mem'[p][o] = mem[p][o]
          <6>1. mem \in [Pages -> [Offsets -> Cell]] /\ o \in Nat
            BY <1>0 DEF TypeOK, Offsets
          <6>2. CASE p # wpage[w]
            BY <5>1, <6>1, <6>2
          <6>3. CASE p = wpage[w] /\ o # pend[w].off
            BY <5>1, <6>1, <6>3
          <6>. QED
            BY <5>2, <5>3, <6>1, <6>2, <6>3
        <5>. QED
          BY <5>3
      <4>. QED
        BY <2>1, <4>1, <4>2, WriteBehindLog DEF OpenPad
    <3>2. CASE ~(Remaining(w) >= 1)
      BY <2>1, <3>2 DEF OpenPad, Intact
    <3>. QED BY <3>1, <3>2
  <2>. QED
    BY <2>1, LogKept DEF OpenPad
<1>5. WriterOK(w)'
  <2>0. pend[w].off > 0
    BY <1>b DEF OpenPad, Fits, Remaining, Frame
  <2>1. AtEnd(pend[w])'
    <3>1. /\ pend[w].pg \in Nat /\ pend[w].off \in Nat
          /\ nwp.pg \in Nat /\ nwp.off \in Nat /\ nwp.off < PageSize
      BY <1>b DEF Frame, Offsets
    <3>. QED
      BY <1>b, <3>1 DEF OpenPad, AtEnd
  <2>2. PendOK(w)'
    BY <1>0, <1>a, <1>b, <2>1 DEF WriterOK, PendOK, Writing, FrameIds
  <2>3. MapOK(w)'
    BY <1>0 DEF OpenPad, WriterOK, MapOK
  <2>4. NullLock => NullOK(w)'
    BY <1>0, <1>b, <2>0 DEF OpenPad, WriterOK, NullOK, AtEnd
  <2>. QED
    BY <2>2, <2>3, <2>4 DEF WriterOK
<1>6. ASSUME NEW v \in Writers, v # w PROVE WriterOK(v)'
  <2>1. wpc[v] \notin {"opened", "filled"}
    BY <1>a, <1>6 DEF Writing
  <2>. QED
    BY <1>0, <1>6, <2>1, OtherKept DEF OpenPad, Goto, TypeOK
<1>. QED
  BY <1>1, <1>2, <1>3, <1>4, <1>5, <1>6, IInvParts

\* open_frame goes on to the next page.
LEMMA OpenNewPageInv ==
  ASSUME IInv, NEW w \in Writers, OpenNewPage(w)
  PROVE  IInv'
<1> USE ChannelAssumption
<1>0. TypeOK /\ LockInv /\ WriterOK(w)
  BY DEF IInv, WriterOK, NullInv, PendInv, MapInv
<1>a. Writing(w) /\ \A v \in Writers : v # w => ~Writing(v)
  BY WriterAlone DEF OpenNewPage, Writing
<1>b. /\ pend[w].pg \in Pages /\ pend[w].pg \in files'
      /\ files \subseteq files' /\ files' \subseteq Pages
      /\ mem' \in [Pages -> [Offsets -> Cell]]
  BY <1>0, GetPageKeeps DEF OpenNewPage
<1>1. TypeOK'
  BY <1>0, <1>b DEF OpenNewPage, Goto, TypeOK, rvars
<1>2. LockInv'
  BY <1>0 DEF OpenNewPage, Goto, TypeOK, LockInv, Writing
<1>3. ReaderInv'
  BY WritersLeaveReaders DEF IInv, OpenNewPage
<1>4. LogInv' /\ LostInv' /\ CommittedIntact'
  BY LogSurvivesGetPage DEF OpenNewPage
<1>5. WriterOK(w)'
  <2>1. wpc'[w] = "aligned" /\ wpage'[w] = pend[w].pg /\ pend[w].off = 0
    BY <1>0 DEF OpenNewPage, Goto, TypeOK, WriterOK, PendOK
  <2>2. PendOK(w)'
    BY <1>0, <1>a, <2>1 DEF OpenNewPage, WriterOK, PendOK, Writing, AtEnd, FrameIds
  <2>3. MapOK(w)' /\ (NullLock => NullOK(w)')
    BY <1>0, <1>b, <2>1 DEF OpenNewPage, WriterOK, MapOK, NullOK, AtEnd
  <2>. QED
    BY <2>2, <2>3 DEF WriterOK
<1>6. ASSUME NEW v \in Writers, v # w PROVE WriterOK(v)'
  <2>1. wpc[v] \notin {"opened", "filled"}
    BY <1>a, <1>6 DEF Writing
  <2>. QED
    BY <1>0, <1>b, <1>6, <2>1, OtherKept DEF OpenNewPage, Goto, TypeOK
<1>. QED
  BY <1>1, <1>2, <1>3, <1>4, <1>5, <1>6, IInvParts

\* open_frame gives up and unlocks.
LEMMA OpenFailInv ==
  ASSUME IInv, NEW w \in Writers, OpenFail(w)
  PROVE  IInv'
<1> USE ChannelAssumption
<1>0. TypeOK /\ LockInv /\ WriterOK(w)
  BY DEF IInv, WriterOK, NullInv, PendInv, MapInv
<1>a. Writing(w) /\ \A v \in Writers : v # w => ~Writing(v)
  BY WriterAlone DEF OpenFail, Writing
<1>1. TypeOK'
  <2>1. NoPend \in Frame
    BY DEF NoPend, Frame
  <2>2. pend' \in [Writers -> Frame]
    BY <1>0, <2>1 DEF OpenFail, TypeOK
  <2>3. lock' \in Writers \cup {None}
    BY <1>0 DEF OpenFail, Unlock, TypeOK
  <2>. QED
    BY <1>0, <2>2, <2>3 DEF OpenFail, Goto, TypeOK, rvars
<1>2. LockInv'
  BY <1>0, <1>a DEF OpenFail, Goto, Unlock, TypeOK, LockInv, Writing
<1>3. ReaderInv'
  BY WritersLeaveReaders DEF IInv, OpenFail
<1>4. LogInv' /\ LostInv' /\ CommittedIntact'
  BY DEF OpenFail, IInv, LogInv, LostInv, CommittedIntact, Intact
<1>5. WriterOK(w)'
  BY <1>0 DEF OpenFail, Goto, TypeOK, WriterOK, PendOK, MapOK, NullOK, Writing, AtEnd
<1>6. ASSUME NEW v \in Writers, v # w PROVE WriterOK(v)'
  <2>1. wpc[v] \notin {"opened", "filled"}
    BY <1>a, <1>6 DEF Writing
  <2>. QED
    BY <1>0, <1>6, <2>1, OtherKept DEF OpenFail, Goto, TypeOK
<1>. QED
  BY <1>1, <1>2, <1>3, <1>4, <1>5, <1>6, IInvParts

\* open_frame writes the header.
LEMMA OpenHeaderInv ==
  ASSUME IInv, NEW w \in Writers, OpenHeader(w)
  PROVE  IInv'
<1> USE ChannelAssumption
<1>0. TypeOK /\ LockInv /\ WriterOK(w)
  BY DEF IInv, WriterOK, NullInv, PendInv, MapInv
<1>a. Writing(w) /\ \A v \in Writers : v # w => ~Writing(v)
  BY WriterAlone DEF OpenHeader, Writing
<1>b. /\ pend[w] \in Frame /\ wpage[w] \in Pages /\ wpage[w] = pend[w].pg
      /\ wpc'[w] = "opened" /\ pend[w].size \in Sizes /\ pend[w].id \in FrameIds
  BY <1>0, <1>a DEF OpenHeader, Goto, TypeOK, WriterOK, PendOK
<1>c. /\ pend[w].off + pend[w].size <= PageSize
      /\ pend[w].off < PageSize /\ pend[w].off \in Offsets
  BY <1>b DEF OpenHeader, Fits, Remaining, Frame, Offsets
<1>d. /\ mem \in [Pages -> [Offsets -> Cell]]
      /\ mem' = [mem EXCEPT ![wpage[w]] =
                  [@ EXCEPT ![pend[w].off] = Header(pend[w].size, pend[w].id)]]
  BY <1>0 DEF OpenHeader, TypeOK
<1>1. TypeOK'
  <2>1. Header(pend[w].size, pend[w].id) \in Cell
    BY <1>b DEF Header, Cell, Frame
  <2>2. mem' \in [Pages -> [Offsets -> Cell]]
    BY <1>b, <1>c, <1>d, <2>1
  <2>. QED
    BY <1>0, <2>2 DEF OpenHeader, Goto, TypeOK, rvars
<1>2. LockInv'
  BY <1>0 DEF OpenHeader, Goto, TypeOK, LockInv, Writing
<1>3. ReaderInv'
  BY WritersLeaveReaders DEF IInv, OpenHeader
<1>4. LogInv' /\ LostInv' /\ CommittedIntact'
  <2>1. ASSUME NEW p \in Pages, NEW o \in Offsets, p # wpage[w] \/ o < pend[w].off
        PROVE  mem'[p][o] = mem[p][o]
    <3>1. CASE p # wpage[w]
      BY <1>d, <3>1
    <3>2. CASE p = wpage[w] /\ o # pend[w].off
      BY <1>d, <3>2
    <3>. QED
      BY <1>c, <2>1, <3>1, <3>2 DEF Offsets
  <2>2. ASSUME NEW i \in 1..Len(log), Intact(log[i]) PROVE Intact(log[i])'
    BY <1>c, <2>1, <2>2, WriteBehindLog DEF OpenHeader
  <2>. QED
    BY <2>2, LogKept DEF OpenHeader
<1>5. WriterOK(w)'
  <2>1. mem'[pend[w].pg][pend[w].off] = Header(pend[w].size, pend[w].id)
    BY <1>b, <1>c, <1>d
  <2>2. PendOK(w)'
    BY <1>0, <1>b, <1>c, <2>1 DEF OpenHeader, WriterOK, PendOK, Writing, AtEnd, Header, FrameIds
  <2>3. MapOK(w)' /\ (NullLock => NullOK(w)')
    BY <1>0, <1>b DEF OpenHeader, WriterOK, MapOK, NullOK, AtEnd
  <2>. QED
    BY <2>2, <2>3 DEF WriterOK
<1>6. ASSUME NEW v \in Writers, v # w PROVE WriterOK(v)'
  <2>1. wpc[v] \notin {"opened", "filled"}
    BY <1>a, <1>6 DEF Writing
  <2>. QED
    BY <1>0, <1>6, <2>1, OtherKept DEF OpenHeader, Goto, TypeOK
<1>. QED
  BY <1>1, <1>2, <1>3, <1>4, <1>5, <1>6, IInvParts

\* The payload is copied in.
LEMMA WritePayloadInv ==
  ASSUME IInv, NEW w \in Writers, WritePayload(w)
  PROVE  IInv'
<1> USE ChannelAssumption
<1>0. TypeOK /\ LockInv /\ WriterOK(w)
  BY DEF IInv, WriterOK, NullInv, PendInv, MapInv
<1>a. Writing(w) /\ \A v \in Writers : v # w => ~Writing(v)
  BY WriterAlone DEF WritePayload, Writing
<1> DEFINE f == pend[w]
           New(o) == IF o > f.off /\ o < f.off + f.size
                     THEN Data(f.id) ELSE mem[f.pg][o]
<1>b. /\ f \in Frame /\ f.pg \in Pages /\ wpage[w] = f.pg /\ wpc'[w] = "filled"
      /\ f.size \in Sizes /\ f.id \in FrameIds /\ f.off + f.size <= PageSize
      /\ mem[f.pg][f.off] = Header(f.size, f.id)
  BY <1>0, <1>a DEF WritePayload, Goto, TypeOK, WriterOK, PendOK
<1>c. f.off \in Nat /\ f.size \in Nat /\ f.off < PageSize /\ f.off \in Offsets
  BY <1>b DEF Frame, Offsets
<1>d. /\ mem \in [Pages -> [Offsets -> Cell]]
      /\ mem' = [mem EXCEPT ![f.pg] = [o \in Offsets |-> New(o)]]
  BY <1>0, <1>b DEF WritePayload, TypeOK
<1>e. ASSUME NEW p \in Pages, NEW o \in Offsets
      PROVE  mem'[p][o] = IF p = f.pg THEN New(o) ELSE mem[p][o]
  BY <1>b, <1>d
<1>1. TypeOK'
  <2>1. Data(f.id) \in Cell
    BY <1>b DEF Data, Cell, Frame
  <2>2. [o \in Offsets |-> New(o)] \in [Offsets -> Cell]
    BY <1>b, <1>d, <2>1
  <2>3. mem' \in [Pages -> [Offsets -> Cell]]
    BY <1>d, <2>2
  <2>. QED
    BY <1>0, <2>3 DEF WritePayload, Goto, TypeOK, rvars
<1>2. LockInv'
  BY <1>0 DEF WritePayload, Goto, TypeOK, LockInv, Writing
<1>3. ReaderInv'
  BY WritersLeaveReaders DEF IInv, WritePayload
<1>4. LogInv' /\ LostInv' /\ CommittedIntact'
  <2>1. ASSUME NEW p \in Pages, NEW o \in Offsets, p # wpage[w] \/ o < f.off
        PROVE  mem'[p][o] = mem[p][o]
    BY <1>b, <1>c, <1>e, <2>1 DEF Offsets
  <2>2. ASSUME NEW i \in 1..Len(log), Intact(log[i]) PROVE Intact(log[i])'
    BY <1>c, <2>1, <2>2, WriteBehindLog DEF WritePayload
  <2>. QED
    BY <2>2, LogKept DEF WritePayload
<1>5. WriterOK(w)'
  <2>1. mem'[f.pg][f.off] = Header(f.size, f.id)
    BY <1>b, <1>c, <1>e
  <2>2. \A o \in Offsets : o > f.off /\ o < f.off + f.size => mem'[f.pg][o] = Data(f.id)
    BY <1>b, <1>e
  <2>3. PendOK(w)'
    BY <1>0, <1>b, <2>1, <2>2
       DEF WritePayload, WriterOK, PendOK, Writing, AtEnd, Intact, Header, Data, FrameIds
  <2>4. MapOK(w)' /\ (NullLock => NullOK(w)')
    BY <1>0, <1>b DEF WritePayload, WriterOK, MapOK, NullOK, AtEnd
  <2>. QED
    BY <2>3, <2>4 DEF WriterOK
<1>6. ASSUME NEW v \in Writers, v # w PROVE WriterOK(v)'
  <2>1. wpc[v] \notin {"opened", "filled"}
    BY <1>a, <1>6 DEF Writing
  <2>. QED
    BY <1>0, <1>6, <2>1, OtherKept DEF WritePayload, Goto, TypeOK
<1>. QED
  BY <1>1, <1>2, <1>3, <1>4, <1>5, <1>6, IInvParts

\* close_frame publishes the frame: it becomes a committed one, before the new
\* next_write_pos, and whole.
LEMMA CloseFrameInv ==
  ASSUME IInv, NEW w \in Writers, CloseFrame(w)
  PROVE  IInv'
<1> USE ChannelAssumption
<1>0. TypeOK /\ LockInv /\ WriterOK(w)
  BY DEF IInv, WriterOK, NullInv, PendInv, MapInv
<1>a. Writing(w) /\ \A v \in Writers : v # w => ~Writing(v)
  BY WriterAlone DEF CloseFrame, Writing
<1> DEFINE f == pend[w]
           S == [pg : Pages, off : Offsets, size : 1..PageSize, id : FrameIds]
<1>b. /\ f \in Frame /\ f.pg \in Pages /\ wpage[w] = f.pg /\ wpc'[w] = "idle"
      /\ f.size \in Sizes /\ f.id \in FrameIds /\ f.off + f.size <= PageSize
      /\ AtEnd(f) /\ Intact(f) /\ f.pg \in files \cup lost
  BY <1>0, <1>a DEF CloseFrame, Goto, TypeOK, WriterOK, PendOK, MapOK
<1>c. /\ f.pg \in Nat /\ f.off \in Nat /\ f.size \in Nat /\ f.size >= 1 /\ f.off \in Offsets
      /\ nwp.pg \in Nat /\ nwp.off \in Nat
  BY <1>0, <1>b, SMTT(30) DEF TypeOK, Frame, Offsets, Pages
<1>i. f.pg > nwp.pg \/ (f.pg = nwp.pg /\ f.off >= nwp.off)
  BY <1>b, <1>c DEF AtEnd, Offsets
<1>d. f \in S
  BY <1>b, <1>c DEF Frame
<1>e. /\ nwp' = Norm(f.pg, f.off + f.size) /\ log' = Append(log, f)
      /\ pend' = [pend EXCEPT ![w] = NoPend]
      /\ UNCHANGED <<files, mem, lost, wpage, rvars, opens, crashes, exits>>
  BY DEF CloseFrame
<1>f. /\ nwp'.pg \in Nat /\ nwp'.off \in Nat /\ nwp' \in [pg : Nat, off : Offsets]
      /\ nwp'.pg >= nwp.pg
      /\ nwp'.pg > f.pg \/ (nwp'.pg = f.pg /\ nwp'.off = f.off + f.size)
  <2>1. CASE f.off + f.size = PageSize
    <3>1. nwp' = [pg |-> f.pg + 1, off |-> 0]
      BY <1>e, <2>1 DEF Norm
    <3>. QED
      BY <1>c, <1>i, <3>1 DEF Offsets
  <2>2. CASE f.off + f.size # PageSize
    <3>1. nwp' = [pg |-> f.pg, off |-> f.off + f.size]
      BY <1>e, <2>2 DEF Norm
    <3>2. f.off + f.size \in Offsets
      BY <1>b, <1>c, <2>2 DEF Offsets
    <3>. QED
      BY <1>c, <1>i, <3>1, <3>2
  <2>. QED BY <2>1, <2>2
<1>g. log \in Seq(S) /\ log' \in Seq(S)
  <2>1. log \in Seq(S)
    BY <1>0 DEF TypeOK
  <2>. HIDE DEF S
  <2>. QED
    BY <1>d, <1>e, <2>1
<1>h. /\ Len(log') = Len(log) + 1 /\ log'[Len(log) + 1] = f
      /\ \A i \in 1..Len(log) : log'[i] = log[i]
  <2>. HIDE DEF S
  <2>. QED
    BY <1>d, <1>e, <1>g
<1>1. TypeOK'
  <2>1. NoPend \in Frame
    BY DEF NoPend, Frame
  <2>2. pend' \in [Writers -> Frame]
    BY <1>0, <1>e, <2>1 DEF TypeOK
  <2>3. lock' \in Writers \cup {None}
    BY <1>0 DEF CloseFrame, Unlock, TypeOK
  <2>4. [pg |-> f.pg, off |-> f.off + f.size] \in Pos
    BY <1>c DEF Pos
  <2>5. wpos' \in [Writers -> Pos]
    BY <1>0, <2>4 DEF CloseFrame, TypeOK
  <2>. QED
    BY <1>0, <1>f, <1>g, <2>2, <2>3, <2>5 DEF CloseFrame, Goto, TypeOK, rvars
<1>2. LockInv'
  BY <1>0, <1>a DEF CloseFrame, Goto, Unlock, TypeOK, LockInv, Writing
<1>3. ReaderInv'
  BY WritersLeaveReaders DEF IInv, CloseFrame
<1>4. LogInv' /\ LostInv' /\ CommittedIntact'
  <2>1. LostInv'
    <3>1. ASSUME NEW p \in lost PROVE p < nwp'.pg
      <4>1. p \in Nat /\ p < nwp.pg
        BY <1>0 DEF IInv, LostInv, TypeOK, Pages
      <4>. QED
        BY <1>c, <1>f, <4>1
    <3>. QED
      BY <1>e, <3>1 DEF LostInv
  <2>2. ASSUME NEW i \in 1..Len(log')
        PROVE  i \in 1..Len(log) \/ i = Len(log) + 1
    BY <1>g, <1>h
  <2>3. LogInv'
    <3>1. ASSUME NEW i \in 1..Len(log)
          PROVE  /\ log[i].pg \in files \cup lost
                 /\ log[i].off + log[i].size <= PageSize
                 /\ \/ log[i].pg < nwp'.pg
                    \/ log[i].pg = nwp'.pg /\ log[i].off + log[i].size <= nwp'.off
      <4>1. log[i] \in S
        <5>. HIDE DEF S
        <5>. QED
          BY <1>g
      <4>2. log[i].pg \in Nat /\ log[i].off \in Nat /\ log[i].size \in Nat
        BY <4>1 DEF Pages, Offsets
      <4>3. /\ log[i].pg \in files \cup lost
            /\ log[i].off + log[i].size <= PageSize
            /\ \/ log[i].pg < nwp.pg
               \/ log[i].pg = nwp.pg /\ log[i].off + log[i].size <= nwp.off
        BY DEF IInv, LogInv
      <4>4. \/ log[i].pg < f.pg
            \/ log[i].pg = f.pg /\ log[i].off + log[i].size <= f.off
        <5>1. CASE log[i].pg < nwp.pg
          BY <1>c, <1>i, <4>2, <5>1
        <5>2. CASE log[i].pg = nwp.pg /\ log[i].off + log[i].size <= nwp.off
          BY <1>c, <1>i, <4>2, <5>2
        <5>. QED  BY <4>3, <5>1, <5>2
      <4>5. CASE nwp'.pg > f.pg
        BY <1>c, <1>f, <4>2, <4>3, <4>4, <4>5
      <4>6. CASE nwp'.pg = f.pg /\ nwp'.off = f.off + f.size
        BY <1>c, <4>2, <4>3, <4>4, <4>6
      <4>. QED
        BY <1>f, <4>5, <4>6
    <3>2. /\ f.pg < nwp'.pg \/ (f.pg = nwp'.pg /\ f.off + f.size <= nwp'.off)
      BY <1>c, <1>f
    <3>3. ASSUME NEW i \in 1..Len(log')
          PROVE  /\ log'[i].pg \in files \cup lost
                 /\ log'[i].off + log'[i].size <= PageSize
                 /\ \/ log'[i].pg < nwp'.pg
                    \/ log'[i].pg = nwp'.pg /\ log'[i].off + log'[i].size <= nwp'.off
      <4>1. CASE i \in 1..Len(log)
        BY <1>h, <3>1, <4>1
      <4>2. CASE i = Len(log) + 1
        BY <1>b, <1>h, <3>2, <4>2
      <4>. QED
        BY <2>2, <4>1, <4>2
    <3>. QED
      BY <1>e, <3>3 DEF LogInv
  <2>4. CommittedIntact'
    <3>1. ASSUME NEW i \in 1..Len(log'), log'[i].pg \notin lost
          PROVE  Intact(log[i])'
      <4>1. CASE i \in 1..Len(log)
        BY <1>e, <1>h, <3>1, <4>1 DEF IInv, CommittedIntact, Intact
      <4>2. CASE i = Len(log) + 1
        BY <1>b, <1>e, <1>h, <4>2 DEF Intact
      <4>. QED
        BY <2>2, <4>1, <4>2
    <3>. QED
      BY <1>e, <3>1 DEF CommittedIntact
  <2>. QED
    BY <2>1, <2>3, <2>4
<1>5. WriterOK(w)'
  <2>1. PendOK(w)'
    BY <1>b DEF PendOK, Writing
  <2>2. MapOK(w)'
    BY <1>b, <1>e DEF MapOK
  <2>3. ASSUME NullLock PROVE NullOK(w)'
    <3>1. wpos'[w] = [pg |-> f.pg, off |-> f.off + f.size]
      BY <1>0, <2>3 DEF CloseFrame, TypeOK
    <3>2. AtEnd(wpos[w])'
      BY <1>b, <1>c, <1>e, <3>1 DEF AtEnd, Norm
    <3>. QED
      BY <1>b, <1>e, <3>1, <3>2 DEF NullOK
  <2>. QED
    BY <2>1, <2>2, <2>3 DEF WriterOK
<1>6. ASSUME NEW v \in Writers, v # w PROVE WriterOK(v)'
  <2>1. ~Writing(v) /\ ~NullLock /\ PendOK(v) /\ MapOK(v)
    BY <1>a, <1>6 DEF IInv, PendInv, MapInv
  <2>2. wpc'[v] = wpc[v] /\ wpage'[v] = wpage[v]
    BY <1>0, <1>6 DEF CloseFrame, Goto, TypeOK
  <2>3. PendOK(v)'
    BY <2>1, <2>2 DEF PendOK, Writing
  <2>4. MapOK(v)'
    BY <1>e, <2>1, <2>2 DEF MapOK
  <2>. QED
    BY <2>1, <2>3, <2>4 DEF WriterOK
<1>. QED
  BY <1>1, <1>2, <1>3, <1>4, <1>5, <1>6, IInvParts

\* prefetch_pages creates pages ahead.
LEMMA PrefetchInv ==
  ASSUME IInv, NEW w \in Writers, Prefetch(w)
  PROVE  IInv'
<1> USE ChannelAssumption
<1>0. TypeOK /\ LockInv /\ WriterOK(w)
  BY DEF IInv, WriterOK, NullInv, PendInv, MapInv
<1>b. /\ files \subseteq files' /\ files' \subseteq Pages
      /\ mem' \in [Pages -> [Offsets -> Cell]]
      /\ \A q \in files : mem'[q] = mem[q]
  BY <1>0, GetPageKeeps DEF Prefetch
<1>1. TypeOK'
  BY <1>0, <1>b DEF Prefetch, TypeOK, wvars, rvars
<1>2. LockInv'
  BY <1>0 DEF Prefetch, LockInv, Writing, wvars
<1>3. ReaderInv'
  BY WritersLeaveReaders DEF IInv, Prefetch
<1>4. LogInv' /\ LostInv' /\ CommittedIntact'
  BY LogSurvivesGetPage DEF Prefetch
<1>5. ASSUME NEW v \in Writers PROVE WriterOK(v)'
  <2>1. wpc[v] \in {"opened", "filled"} => mem'[pend[v].pg] = mem[pend[v].pg]
    BY <1>b, PendPageHasFile
  <2>. QED
    BY <1>b, <2>1, OtherKept DEF Prefetch, wvars
<1>. QED
  BY <1>1, <1>2, <1>3, <1>4, <1>5, IInvParts

-----------------------------------------------------------------------------
(* The theorems *)

\* IInv is inductive.
LEMMA NextInv == IInv /\ [Next]_vars => IInv'
<1> SUFFICES ASSUME IInv, [Next]_vars PROVE IInv'
  OBVIOUS
<1>1. ASSUME NEW w \in Writers, WriterStep(w) PROVE IInv'
  BY <1>1, CreateLoadInv, CreateOpenInv, EndInv, OpenLockInv, OpenAlignInv, OpenPadInv,
     OpenNewPageInv, OpenFailInv, OpenHeaderInv, WritePayloadInv, CloseFrameInv, PrefetchInv
     DEF WriterStep
<1>2. CASE UNCHANGED vars
  <2>1. WriterInv'
    BY <1>2, ReadersLeaveWriters DEF IInv, WriterInv, vars
  <2>2. TypeOK' /\ ReaderInv'
    BY <1>2 DEF IInv, TypeOK, ReaderInv, vars, wvars, rvars
  <2>. QED
    BY <2>1, <2>2 DEF IInv, WriterInv
<1>. QED
  BY <1>1, <1>2, ReaderStepInv, CleanupInv DEF Next

\* IInv holds in every reachable state of the channel.
THEOREM Invariance == Spec => []IInv
BY InitInv, NextInv, PTL DEF Spec

\* Every variable of the channel keeps its type; in particular
\* next_write_pos stays a normalised position and no committed frame runs
\* over the end of its page.
THEOREM TypeCorrect == Spec => []TypeOK
<1>1. IInv => TypeOK
  BY DEF IInv
<1>. QED
  BY <1>1, Invariance, PTL

\* At most one writer is between open_frame's lock and close_frame's unlock,
\* for any number of writers and any crashes.
THEOREM WritersExclude == Spec => []MutualExclusion
<1>1. IInv => MutualExclusion
  BY WriterAlone DEF MutualExclusion
<1>. QED
  BY <1>1, Invariance, PTL

\* Both together, as the run checks them.
THEOREM StructureCorrect == Spec => []StructureOK
<1>1. TypeOK /\ MutualExclusion => StructureOK
  BY DEF StructureOK
<1>. QED
  BY <1>1, TypeCorrect, WritersExclude, PTL

\* No writer ever damages a committed frame, for any number of writers, any
\* page size and frame sizes, any crashes, failures to create a page and
\* cleanups.
THEOREM FramesStayIntact == Spec => []CommittedIntact
<1>1. IInv => CommittedIntact
  BY DEF IInv
<1>. QED
  BY <1>1, Invariance, PTL

-----------------------------------------------------------------------------
(***************************************************************************)
(* The shared-memory channel implements the append-only log of FrameLog,   *)
(* and the page cleaner keeps every page a live reader has yet to read,    *)
(* for every number of writers and readers, every page and frame size.     *)
(*                                                                         *)
(* A reader walks through memory: from the end of the frame it got last it *)
(* finds the header of the next one, or a padding that leads to the next   *)
(* page.  ChainInv says that this walk leads from each committed frame to  *)
(* the one committed after it, PlaceInv that the frame being written       *)
(* continues the chain at next_write_pos, ReaderChain that every reader    *)
(* stands on the chain at the place cur says, and that no page from there  *)
(* on has been deleted.                                                    *)
(***************************************************************************)

\* Where the i-th frame ends; write_initial_frame ends at unit 1 of page 0.
End(i) == IF i = 0 THEN Norm(0, 1) ELSE Norm(log[i].pg, log[i].off + log[i].size)

\* The walk from position e gets to f: at once, or past the padding that
\* open_frame has put at e.
Leads(e, f) ==
  \/ f.pg = e.pg /\ f.off = e.off
  \/ /\ f.pg = e.pg + 1 /\ f.off = 0
     /\ e.pg \in files \cup lost
     /\ e.pg \notin lost => mem[e.pg][e.off] = Padding(PageSize - e.off)

\* The committed frames are one walk that ends at next_write_pos.
ChainInv ==
  /\ nwp = End(Len(log))
  /\ \A i \in 1..Len(log) : Leads(End(i - 1), log[i])

\* Pages only grow along the log.
OrderInv == \A i, j \in 1..Len(log) : i <= j => log[i].pg <= log[j].pg

\* The frame being placed continues the walk at next_write_pos.  Only a
\* writer without a lock that has filled a page starts from the end of it.
Placed(w) ==
  /\ wpc[w] \in {"aligned", "crossing", "opened", "filled"} =>
       Leads(nwp, pend[w]) \/ (wpc[w] = "aligned" /\ Norm(pend[w].pg, pend[w].off) = nwp)
  /\ NullLock /\ wpc[w] # "dead" => Norm(wpos[w].pg, wpos[w].off) = nwp
PlaceInv == \A w \in Writers : Placed(w)

\* The position p is where the walk is after n frames.
Stands(p, n) ==
  /\ n <= Len(log)
  /\ \/ Norm(p.pg, p.off) = End(n)
     \/ n < Len(log) /\ Norm(p.pg, p.off) = [pg |-> log[n + 1].pg, off |-> log[n + 1].off]

\* What holds of one reader.
ReaderOK(r) ==
  /\ rpc[r] \in {"off", "exited"} => last[r] = <<>>
  /\ rpc[r] = "off" /\ r \in DOMAIN reg => reg[r] = 0
  /\ rpc[r] \in {"loaded", "open"} => rloc[r] = rpos[r]
  /\ rpc[r] = "reading" => cur[r] < Len(log)
  /\ Live(r) => /\ Stands(rpos[r], cur[r]) /\ Stands(rloc[r], cur[r])
                /\ r \in DOMAIN reg /\ reg[r] <= rpos[r].pg /\ rpos[r].pg <= rloc[r].pg
                /\ rloc[r].off <= PageSize /\ rpos[r].off <= PageSize
                /\ \A p \in lost : p < rpos[r].pg
ReaderChain == \A r \in Readers : ReaderOK(r)

Chain == ChainInv /\ OrderInv /\ PlaceInv /\ ReaderChain

-----------------------------------------------------------------------------
(* Facts about the log *)

\* What IInv says of one committed frame.
LEMMA FrameFacts ==
  ASSUME IInv
  PROVE  /\ Len(log) \in Nat
         /\ nwp.pg \in Nat /\ nwp.off \in Nat /\ nwp.off < PageSize
         /\ nwp = [pg |-> nwp.pg, off |-> nwp.off]
         /\ \A i \in 1..Len(log) :
              /\ log[i].pg \in Nat /\ log[i].off \in Nat /\ log[i].size \in Nat
              /\ log[i].off < PageSize /\ log[i].size >= 1
              /\ log[i].off + log[i].size <= PageSize
              /\ log[i].id \in FrameIds /\ log[i].pg \in Pages
              /\ log[i].pg \in files \cup lost /\ log[i].pg <= nwp.pg
<1> USE ChannelAssumption
<1> DEFINE S == [pg : Pages, off : Offsets, size : 1..PageSize, id : FrameIds]
<1>1. log \in Seq(S) /\ nwp \in [pg : Nat, off : Offsets]
  BY DEF IInv, TypeOK
<1>2. Len(log) \in Nat /\ \A i \in 1..Len(log) : log[i] \in S
  <2>. HIDE DEF S
  <2>. QED
    BY <1>1
<1>3. nwp.pg \in Nat /\ nwp.off \in Nat /\ nwp.off < PageSize
      /\ nwp = [pg |-> nwp.pg, off |-> nwp.off]
  BY <1>1 DEF Offsets
<1>4. ASSUME NEW i \in 1..Len(log)
      PROVE  /\ log[i].pg \in Nat /\ log[i].off \in Nat /\ log[i].size \in Nat
             /\ log[i].off < PageSize /\ log[i].size >= 1
             /\ log[i].id \in FrameIds /\ log[i].pg \in Pages
  <2>1. log[i] \in S
    BY <1>2
  <2>. QED
    BY <2>1 DEF Pages, Offsets
<1>5. ASSUME NEW i \in 1..Len(log)
      PROVE  /\ log[i].off + log[i].size <= PageSize
             /\ log[i].pg \in files \cup lost /\ log[i].pg <= nwp.pg
  <2>1. /\ log[i].pg \in files \cup lost
        /\ log[i].off + log[i].size <= PageSize
        /\ log[i].pg < nwp.pg \/ log[i].pg = nwp.pg
    BY DEF IInv, LogInv
  <2>. QED
    BY <1>3, <1>4, <2>1
<1>. QED
  BY <1>2, <1>3, <1>4, <1>5

\* The end of a frame is a position.
LEMMA EndFacts ==
  ASSUME IInv, NEW i \in 0..Len(log)
  PROVE  /\ End(i).pg \in Nat /\ End(i).off \in Nat /\ End(i).off < PageSize
         /\ End(i) = [pg |-> End(i).pg, off |-> End(i).off]
<1> USE ChannelAssumption
<1>1. CASE i = 0
  BY <1>1 DEF End, Norm
<1>2. CASE i # 0
  <2>1. i \in 1..Len(log)
    BY <1>2, FrameFacts
  <2>2. /\ log[i].pg \in Nat /\ log[i].off \in Nat /\ log[i].size \in Nat
        /\ log[i].off + log[i].size <= PageSize
    BY <2>1, FrameFacts
  <2>. QED
    BY <1>2, <2>2 DEF End, Norm
<1>. QED
  BY <1>1, <1>2

\* A position within a page is its own normal form.
LEMMA NormFacts ==
  ASSUME NEW pg \in Nat, NEW off \in Nat, off <= PageSize
  PROVE  /\ off < PageSize => Norm(pg, off) = [pg |-> pg, off |-> off]
         /\ off = PageSize => Norm(pg, off) = [pg |-> pg + 1, off |-> 0]
         /\ Norm(pg, off).pg \in Nat /\ Norm(pg, off).off \in Nat
         /\ pg <= Norm(pg, off).pg
BY ChannelAssumption DEF Norm

-----------------------------------------------------------------------------
(* Steps that leave the log alone *)

\* A step that keeps the pages before next_write_pos keeps the walk.
LEMMA ChainKept ==
  ASSUME IInv, ChainInv, OrderInv, UNCHANGED <<nwp, log>>,
         lost \subseteq lost', files \cup lost \subseteq files' \cup lost',
         \A p \in files : p < nwp.pg => mem'[p] = mem[p]
  PROVE  ChainInv' /\ OrderInv'
<1> USE ChannelAssumption
<1>1. \A i : End(i)' = End(i)
  BY DEF End
<1>2. ASSUME NEW i \in 1..Len(log) PROVE Leads(End(i - 1), log[i])'
  <2>1. Leads(End(i - 1), log[i])
    BY DEF ChainInv
  <2>2. log[i].pg \in Nat /\ log[i].pg <= nwp.pg /\ nwp.pg \in Nat /\ i - 1 \in 0..Len(log)
    BY FrameFacts
  <2>3. End(i - 1).pg \in Nat
    BY <2>2, EndFacts
  <2>4. CASE log[i].pg = End(i - 1).pg /\ log[i].off = End(i - 1).off
    BY <1>1, <2>4 DEF Leads
  <2>5. CASE /\ log[i].pg = End(i - 1).pg + 1 /\ log[i].off = 0
             /\ End(i - 1).pg \in files \cup lost
             /\ End(i - 1).pg \notin lost =>
                  mem[End(i - 1).pg][End(i - 1).off] = Padding(PageSize - End(i - 1).off)
    <3>1. End(i - 1).pg < nwp.pg
      BY <2>2, <2>3, <2>5
    <3>2. End(i - 1).pg \notin lost' =>
            mem'[End(i - 1).pg][End(i - 1).off] = Padding(PageSize - End(i - 1).off)
      BY <2>5, <3>1
    <3>. QED
      BY <1>1, <2>5, <3>2 DEF Leads, Padding
  <2>. QED
    BY <2>1, <2>4, <2>5 DEF Leads
<1>3. ChainInv'
  BY <1>1, <1>2 DEF ChainInv
<1>4. OrderInv'
  BY DEF OrderInv
<1>. QED
  BY <1>3, <1>4

\* A reader stays where it is on a log that does not change.
LEMMA ReaderKept ==
  ASSUME NEW r \in Readers, ReaderOK(r), UNCHANGED <<log, lost>>,
         rpc'[r] = rpc[r], rpos'[r] = rpos[r], rloc'[r] = rloc[r], cur'[r] = cur[r],
         last'[r] = last[r],
         r \in DOMAIN reg <=> r \in DOMAIN reg', r \in DOMAIN reg => reg'[r] = reg[r]
  PROVE  ReaderOK(r)'
<1>1. \A i : End(i)' = End(i)
  BY DEF End
<1>2. Stands(rpos[r], cur[r])' = Stands(rpos[r], cur[r])
  BY <1>1 DEF Stands
<1>3. Stands(rloc[r], cur[r])' = Stands(rloc[r], cur[r])
  BY <1>1 DEF Stands
<1>. QED
  BY <1>2, <1>3 DEF ReaderOK, Live

-----------------------------------------------------------------------------
(* Readers *)

\* next_frame looks at the next committed frame, or at the padding before it.
LEMMA WalkStep ==
  ASSUME IInv, Chain, NEW r \in Readers, rpc[r] = "reading", rloc[r].off < PageSize
  PROVE  LET f == log[cur[r] + 1]
         IN /\ cur[r] \in Nat /\ cur[r] + 1 \in 1..Len(log)
            /\ rloc[r].pg \in Nat /\ rloc[r].off \in Nat
            /\ \/ /\ f.pg = rloc[r].pg /\ f.off = rloc[r].off
                  /\ HeaderAt(r) = Header(f.size, f.id) /\ FrameAt(r) = f.id
               \/ /\ f.pg = rloc[r].pg + 1 /\ f.off = 0
                  /\ HeaderAt(r) = Padding(PageSize - rloc[r].off)
<1> USE ChannelAssumption
<1> DEFINE n == cur[r]
           f == log[n + 1]
           p == rloc[r]
<1>1. ReaderOK(r)
  BY DEF Chain, ReaderChain
<1>2. n < Len(log) /\ Stands(p, n) /\ rpos[r].pg <= p.pg /\ \A q \in lost : q < rpos[r].pg
  BY <1>1 DEF ReaderOK, Live
<1>3. p \in Pos /\ rpos[r] \in Pos /\ n \in Nat
  BY DEF IInv, TypeOK
<1>4. n + 1 \in 1..Len(log) /\ n \in 0..Len(log) /\ (n + 1) - 1 = n
  BY <1>2, <1>3, FrameFacts
<1>5. /\ f.pg \in Nat /\ f.off \in Nat /\ f.size \in Nat /\ f.off < PageSize /\ f.size >= 1
      /\ f.off + f.size <= PageSize /\ f.pg \in files \cup lost /\ f.id \in FrameIds
  BY <1>4, FrameFacts
<1>6. p.pg \in Nat /\ p.off \in Nat /\ rpos[r].pg \in Nat /\ p.pg \notin lost
  <2>1. p.pg \in Nat /\ p.off \in Nat /\ rpos[r].pg \in Nat
    BY <1>3 DEF Pos
  <2>2. \A q \in lost : q \in Nat
    BY DEF IInv, TypeOK, Pages
  <2>. QED
    BY <1>2, <2>1, <2>2
<1>7. Norm(p.pg, p.off) = [pg |-> p.pg, off |-> p.off]
  <2>1. p.off # PageSize
    BY <1>6, ChannelAssumption
  <2>. HIDE DEF p
  <2>. QED
    BY <2>1 DEF Norm
<1>8. Leads(End(n), f)
  <2>1. \A i \in 1..Len(log) : Leads(End(i - 1), log[i])
    BY DEF Chain, ChainInv
  <2>2. Leads(End((n + 1) - 1), f)
    BY <1>4, <2>1
  <2>. QED
    BY <1>4, <2>2
<1>9. ASSUME f.pg = p.pg, f.off = p.off
      PROVE  HeaderAt(r) = Header(f.size, f.id) /\ FrameAt(r) = f.id
  <2>1. f.pg \notin lost
    BY <1>6, <1>9
  <2>2. Intact(f)
    <3>1. \A i \in 1..Len(log) : log[i].pg \notin lost => Intact(log[i])
      BY DEF IInv, CommittedIntact
    <3>. QED
      BY <1>4, <2>1, <3>1
  <2>3. HeaderAt(r) = Header(f.size, f.id)
    BY <1>9, <2>2 DEF HeaderAt, Intact
  <2>4. FrameAt(r) = f.id
    BY <1>9, <2>2, <2>3 DEF FrameAt, Intact, Header
  <2>. QED
    BY <2>3, <2>4
<1>10. CASE Norm(p.pg, p.off) = End(n)
  <2>1. End(n).pg = p.pg /\ End(n).off = p.off
    BY <1>7, <1>10
  <2>2. CASE f.pg = End(n).pg /\ f.off = End(n).off
    BY <1>3, <1>4, <1>6, <1>9, <2>1, <2>2
  <2>3. CASE ~(f.pg = End(n).pg /\ f.off = End(n).off)
    <3>1. /\ f.pg = p.pg + 1 /\ f.off = 0
          /\ mem[p.pg][p.off] = Padding(PageSize - p.off)
      BY <1>6, <1>8, <2>1, <2>3 DEF Leads
    <3>2. HeaderAt(r) = Padding(PageSize - p.off)
      BY <3>1 DEF HeaderAt
    <3>. QED
      BY <1>3, <1>4, <1>6, <3>1, <3>2
  <2>. QED
    BY <2>2, <2>3
<1>11. CASE Norm(p.pg, p.off) = [pg |-> f.pg, off |-> f.off]
  <2>1. f.pg = p.pg /\ f.off = p.off
    BY <1>7, <1>11
  <2>. QED
    BY <1>3, <1>4, <1>6, <1>9, <2>1
<1>. QED
  BY <1>2, <1>10, <1>11 DEF Stands

\* A reader's step keeps it on the walk.
LEMMA ReaderStepChain ==
  ASSUME IInv, Chain, NEW r \in Readers, ReaderStep(r)
  PROVE  Chain'
<1> USE ChannelAssumption
<1>1. UNCHANGED <<nwp, files, mem, lost, wvars, log>>
  BY DEF ReaderStep, AddReader, ReaderLoad, ReaderOpen, NextFrame, NextPage, NextFill,
         NextDeliver, ReleaseOldPages, ReaderExit, RemoveReader
<1>2. ChainInv' /\ OrderInv'
  BY <1>1, ChainKept DEF Chain
<1>3. PlaceInv'
  BY <1>1 DEF Chain, PlaceInv, Placed, Leads, wvars
<1>4. TypeOK /\ ReaderOK(r)
  BY DEF IInv, Chain, ReaderChain
<1>5. ASSUME NEW q \in Readers, q # r PROVE ReaderOK(q)'
  <2>1. ReaderOK(q)
    BY DEF Chain, ReaderChain
  <2>2. /\ rpc'[q] = rpc[q] /\ rpos'[q] = rpos[q] /\ rloc'[q] = rloc[q] /\ cur'[q] = cur[q]
        /\ last'[q] = last[q]
    BY <1>4, <1>5 DEF ReaderStep, AddReader, ReaderLoad, ReaderOpen, NextFrame, NextPage, NextFill,
         NextDeliver, ReleaseOldPages, ReaderExit, RemoveReader, RGoto, TypeOK
  <2>3. (q \in DOMAIN reg <=> q \in DOMAIN reg') /\ (q \in DOMAIN reg => reg'[q] = reg[q])
    BY <1>4, <1>5 DEF ReaderStep, AddReader, ReaderLoad, ReaderOpen, NextFrame, NextPage, NextFill,
         NextDeliver, ReleaseOldPages, ReaderExit, RemoveReader, TypeOK
  <2>. QED
    BY <1>1, <2>1, <2>2, <2>3, ReaderKept
<1>6. \A i : End(i)' = End(i)
  BY <1>1 DEF End
<1>7. \A p, n : Stands(p, n)' = Stands(p, n)
  BY <1>1, <1>6 DEF Stands
<1>8. rpos[r] \in Pos /\ rloc[r] \in Pos /\ cur[r] \in Nat /\ nwp \in [pg : Nat, off : Offsets]
  BY <1>4 DEF TypeOK
<1>9. /\ rpos[r].pg \in Nat /\ rpos[r].off \in Nat /\ rloc[r].pg \in Nat /\ rloc[r].off \in Nat
      /\ Len(log) \in Nat
  BY <1>8, FrameFacts DEF Pos
<1>10. ReaderOK(r)'
  <2>1. CASE AddReader(r)
    BY <1>4, <2>1 DEF AddReader, ReaderOK, Live
  <2>2. CASE ReaderLoad(r)
    <3>0. nwp.pg \in Nat /\ nwp.off \in Nat /\ nwp.off < PageSize /\ nwp.off <= PageSize
          /\ nwp = [pg |-> nwp.pg, off |-> nwp.off]
      BY FrameFacts
    <3>1. Norm(nwp.pg, nwp.off) = nwp
      BY <3>0 DEF Norm
    <3>2. Stands(nwp, Len(log))
      BY <1>9, <3>1 DEF Stands, Chain, ChainInv
    <3>3. /\ rpos'[r] = nwp /\ rloc'[r] = nwp /\ cur'[r] = Len(log) /\ rpc'[r] = "loaded"
          /\ r \in DOMAIN reg /\ UNCHANGED <<reg, last>>
      BY <1>4, <2>2 DEF ReaderLoad, RGoto, TypeOK
    <3>4. Stands(rpos[r], cur[r])' /\ Stands(rloc[r], cur[r])'
      BY <1>1, <3>2, <3>3, <1>6 DEF Stands
    <3>5. \A p \in lost : p < nwp.pg
      BY DEF IInv, LostInv
    <3>6. reg[r] = 0
      BY <1>4, <2>2 DEF ReaderLoad, ReaderOK
    <3>. QED
      BY <1>1, <3>0, <3>3, <3>4, <3>5, <3>6 DEF ReaderOK, Live
  <2>3. CASE ReaderOpen(r)
    BY <1>1, <1>4, <1>7, <2>3 DEF ReaderOpen, RGoto, ReaderOK, Live, TypeOK
  <2>4. CASE NextFrame(r)
    <3>1. rpc[r] = "open" /\ rpc'[r] = "reading" /\ UNCHANGED <<reg, rpos, rloc, cur, last>>
      BY <1>4, <2>4 DEF NextFrame, RGoto, TypeOK
    <3>2. cur[r] < Len(log)
      <4>1. Norm(nwp.pg, nwp.off) = nwp
        BY FrameFacts DEF Norm
      <4>2. Norm(rpos[r].pg, rpos[r].off) # nwp
        BY <2>4, <4>1, FrameFacts DEF NextFrame, Before
      <4>3. Stands(rpos[r], cur[r]) /\ nwp = End(Len(log))
        BY <1>4, <3>1 DEF ReaderOK, Live, Chain, ChainInv
      <4>. QED
        BY <1>8, <1>9, <4>2, <4>3 DEF Stands
    <3>. QED
      BY <1>1, <1>4, <1>7, <3>1, <3>2 DEF ReaderOK, Live
  <2>5. CASE NextPage(r)
    <3>1. CASE CanOpen(rloc[r].pg + 1)
      <4>1. /\ rpc[r] = "reading" /\ rloc[r].off = PageSize /\ rpc' = rpc
            /\ rloc'[r] = [pg |-> rloc[r].pg + 1, off |-> 0] /\ rpos'[r] = rloc'[r]
            /\ UNCHANGED <<reg, cur, last>>
        BY <1>4, <2>5, <3>1 DEF NextPage, TypeOK
      <4>2. Norm(rloc'[r].pg, rloc'[r].off) = Norm(rloc[r].pg, rloc[r].off)
        BY <1>9, <4>1 DEF Norm
      <4>3. Stands(rloc[r], cur[r])' /\ Stands(rpos[r], cur[r])'
        BY <1>1, <1>4, <1>6, <4>1, <4>2 DEF ReaderOK, Live, Stands
      <4>4. \A p \in lost : p \in Nat
        BY <1>4 DEF TypeOK, Pages
      <4>5. \A p \in lost : p < rloc[r].pg + 1
        BY <1>4, <1>9, <4>1, <4>4 DEF ReaderOK, Live
      <4>6. reg[r] \in Nat
        BY <1>4, <4>1 DEF ReaderOK, Live, TypeOK
      <4>. QED
        BY <1>1, <1>4, <1>9, <4>1, <4>3, <4>5, <4>6 DEF ReaderOK, Live
    <3>2. CASE ~CanOpen(rloc[r].pg + 1)
      <4>1. /\ rpc[r] = "reading" /\ rpc'[r] = "open" /\ rloc'[r] = rpos[r]
            /\ UNCHANGED <<reg, rpos, cur, last>>
        BY <1>4, <2>5, <3>2 DEF NextPage, RGoto, TypeOK
      <4>. QED
        BY <1>1, <1>4, <1>7, <1>9, <4>1 DEF ReaderOK, Live
    <3>. QED
      BY <3>1, <3>2
  <2>6. CASE NextFill(r)
    <3>0. rpc[r] = "reading" /\ rloc[r].off < PageSize /\ HeaderAt(r).kind = "fill"
          /\ UNCHANGED <<reg, rpos, cur, last>>
      BY <2>6 DEF NextFill
    <3>1. CASE HeaderAt(r).size >= 1
      <4>1. /\ rpc' = rpc
            /\ rloc'[r] = [pg |-> rloc[r].pg, off |-> rloc[r].off + HeaderAt(r).size]
        BY <1>4, <2>6, <3>1 DEF NextFill, TypeOK
      <4>2. /\ cur[r] + 1 \in 1..Len(log)
            /\ log[cur[r] + 1].pg = rloc[r].pg + 1 /\ log[cur[r] + 1].off = 0
            /\ HeaderAt(r) = Padding(PageSize - rloc[r].off)
        BY <3>0, WalkStep DEF Header
      <4>3. rloc'[r] = [pg |-> rloc[r].pg, off |-> PageSize]
        BY <1>9, <4>1, <4>2 DEF Padding
      <4>4. Norm(rloc'[r].pg, rloc'[r].off)
              = [pg |-> log[cur[r] + 1].pg, off |-> log[cur[r] + 1].off]
        BY <4>2, <4>3 DEF Norm
      <4>5. Stands(rloc[r], cur[r])'
        BY <1>1, <1>8, <1>9, <3>0, <4>2, <4>4 DEF Stands
      <4>. QED
        BY <1>1, <1>4, <1>7, <3>0, <4>1, <4>3, <4>5 DEF ReaderOK, Live
    <3>2. CASE ~(HeaderAt(r).size >= 1)
      <4>1. rpc'[r] = "open" /\ rloc'[r] = rpos[r]
        BY <1>4, <2>6, <3>2 DEF NextFill, RGoto, TypeOK
      <4>. QED
        BY <1>1, <1>4, <1>7, <1>9, <3>0, <4>1 DEF ReaderOK, Live
    <3>. QED
      BY <3>1, <3>2
  <2>7. CASE NextDeliver(r)
    <3>0. /\ rpc[r] = "reading" /\ rloc[r].off < PageSize /\ HeaderAt(r).kind # "fill"
          /\ rpc'[r] = "open" /\ cur'[r] = cur[r] + 1 /\ rpos'[r] = rloc'[r]
          /\ rloc'[r] = [pg |-> rloc[r].pg, off |-> rloc[r].off + HeaderAt(r).size]
          /\ UNCHANGED reg
      BY <1>4, <2>7 DEF NextDeliver, RGoto, TypeOK
    <3> DEFINE f == log[cur[r] + 1]
    <3>1. /\ cur[r] + 1 \in 1..Len(log) /\ f.pg = rloc[r].pg /\ f.off = rloc[r].off
          /\ HeaderAt(r) = Header(f.size, f.id)
      BY <3>0, WalkStep DEF Padding
    <3>2. rloc'[r] = [pg |-> f.pg, off |-> f.off + f.size]
      BY <3>0, <3>1 DEF Header
    <3>3. f.off + f.size <= PageSize /\ f.pg \in Nat /\ f.off \in Nat /\ f.size \in Nat
      BY <3>1, FrameFacts
    <3>4. Norm(rloc'[r].pg, rloc'[r].off) = End(cur[r] + 1)
      BY <3>1, <3>2, <1>8 DEF End
    <3>5. Stands(rloc[r], cur[r])' /\ Stands(rpos[r], cur[r])'
      BY <1>1, <1>6, <1>8, <1>9, <3>0, <3>1, <3>4 DEF Stands
    <3>6. rpos[r].pg <= rloc[r].pg /\ reg[r] <= rpos[r].pg /\ r \in DOMAIN reg
          /\ \A p \in lost : p < rpos[r].pg
      BY <1>4, <3>0 DEF ReaderOK, Live
    <3>7. reg[r] \in Nat /\ \A p \in lost : p \in Nat
      BY <1>4, <3>6 DEF TypeOK, Pages
    <3>8. reg[r] <= rloc[r].pg /\ \A p \in lost : p < rloc[r].pg
      BY <1>9, <3>6, <3>7
    <3>. QED
      BY <1>1, <1>9, <3>0, <3>1, <3>2, <3>3, <3>5, <3>6, <3>8 DEF ReaderOK, Live
  <2>8. CASE ReleaseOldPages(r)
    <3>1. rpc[r] = "open" /\ reg' = [reg EXCEPT ![r] = rpos[r].pg] /\ r \in DOMAIN reg
          /\ UNCHANGED <<rpc, rpos, rloc, cur, last>>
      BY <2>8 DEF ReleaseOldPages
    <3>2. DOMAIN reg' = DOMAIN reg /\ reg'[r] = rpos[r].pg
      BY <3>1
    <3>. QED
      BY <1>1, <1>4, <1>7, <1>9, <3>1, <3>2 DEF ReaderOK, Live
  <2>9. CASE ReaderExit(r)
    BY <1>4, <2>9 DEF ReaderExit, RGoto, ReaderOK, Live, TypeOK
  <2>10. CASE RemoveReader(r)
    BY <1>4, <2>10 DEF RemoveReader, RGoto, ReaderOK, Live, TypeOK
  <2>. QED
    BY <2>1, <2>2, <2>3, <2>4, <2>5, <2>6, <2>7, <2>8, <2>9, <2>10 DEF ReaderStep
<1>11. ReaderChain'
  BY <1>5, <1>10 DEF ReaderChain
<1>. QED
  BY <1>2, <1>3, <1>11 DEF Chain

-----------------------------------------------------------------------------
(* Init and the cleaner *)

\* A new channel: no frame, nobody reads or writes.
LEMMA InitChain == Init => Chain
<1> USE ChannelAssumption
<1> SUFFICES ASSUME Init PROVE Chain
  OBVIOUS
<1>1. ChainInv /\ OrderInv
  BY DEF Init, ChainInv, OrderInv, End
<1>2. PlaceInv
  BY DEF Init, PlaceInv, Placed
<1>3. ReaderChain
  BY DEF Init, ReaderChain, ReaderOK, Live
<1>. QED
  BY <1>1, <1>2, <1>3 DEF Chain

\* cleanup takes pages below the page_index of every registered reader.
LEMMA CleanupChain == IInv /\ Chain /\ Cleanup => Chain'
<1> USE ChannelAssumption
<1> SUFFICES ASSUME IInv, Chain, Cleanup PROVE Chain'
  OBVIOUS
<1>1. PICK gone \in SUBSET {p \in files : BelowFloor(p) /\ Expired(p)} :
        /\ files' = files \ gone
        /\ lost' = lost \cup gone
        /\ UNCHANGED <<nwp, mem, wvars, rvars, log, opens, crashes, exits>>
  BY DEF Cleanup
<1>2. \A p \in gone : p \in files /\ \A r \in DOMAIN reg : p < reg[r]
  BY <1>1 DEF BelowFloor
<1>3. ChainInv' /\ OrderInv'
  BY <1>1, ChainKept DEF Chain
<1>4. PlaceInv'
  BY <1>1 DEF Chain, PlaceInv, Placed, Leads, wvars
<1>5. ASSUME NEW r \in Readers PROVE ReaderOK(r)'
  <2>1. ReaderOK(r) /\ TypeOK
    BY DEF Chain, ReaderChain, IInv
  <2>2. \A p, n : Stands(p, n)' = Stands(p, n)
    BY <1>1 DEF Stands, End
  <2>3. ASSUME Live(r), NEW p \in lost' PROVE p < rpos[r].pg
    <3>1. r \in DOMAIN reg /\ reg[r] <= rpos[r].pg /\ \A q \in lost : q < rpos[r].pg
      BY <2>1, <2>3 DEF ReaderOK
    <3>2. reg[r] \in Nat /\ rpos[r] \in Pos /\ \A q \in files : q \in Nat
      BY <2>1, <3>1 DEF TypeOK, Pages
    <3>3. rpos[r].pg \in Nat
      BY <3>2 DEF Pos
    <3>4. CASE p \in gone
      <4>1. p \in Nat /\ p < reg[r]
        BY <1>2, <3>1, <3>2, <3>4
      <4>. QED
        BY <3>1, <3>2, <3>3, <4>1
    <3>. QED
      BY <1>1, <2>3, <3>1, <3>4
  <2>. QED
    BY <1>1, <2>1, <2>2, <2>3 DEF ReaderOK, Live, rvars
<1>. QED
  BY <1>3, <1>4, <1>5 DEF Chain, ReaderChain

-----------------------------------------------------------------------------
(* Writers *)

\* The page of next_write_pos has not been deleted.
LEMMA EndNotLost == ASSUME IInv PROVE nwp.pg \notin lost
<1>1. nwp.pg \in Nat /\ \A p \in lost : p < nwp.pg
  BY FrameFacts DEF IInv, LostInv
<1>. QED
  BY <1>1

\* A step that keeps the pages of a writer in the middle of a frame keeps
\* the place of the frame.
LEMMA OtherPlaced ==
  ASSUME IInv, NEW v \in Writers, Placed(v), UNCHANGED <<nwp, lost>>, files \subseteq files',
         wpc'[v] = wpc[v], pend'[v] = pend[v], wpos'[v] = wpos[v],
         Writing(v) => \A p \in files : mem'[p] = mem[p]
  PROVE  Placed(v)'
<1>1. ASSUME Writing(v), Leads(nwp, pend[v]) PROVE Leads(nwp, pend[v])'
  BY <1>1, EndNotLost DEF Leads, Padding
<1>. QED
  BY <1>1 DEF Placed, Writing

\* Writers that are not in the middle of a frame.
LEMMA OthersPlaced ==
  ASSUME IInv, PlaceInv, NEW w \in Writers, Writing(w),
         UNCHANGED <<nwp, lost>>, files \subseteq files',
         \A v \in Writers : v # w => wpc'[v] = wpc[v] /\ pend'[v] = pend[v] /\ wpos'[v] = wpos[v],
         Placed(w)'
  PROVE  PlaceInv'
<1>1. ASSUME NEW v \in Writers, v # w PROVE Placed(v)'
  <2>1. ~Writing(v)
    BY <1>1, WriterAlone
  <2>. QED
    BY <1>1, <2>1, OtherPlaced DEF PlaceInv
<1>. QED
  BY <1>1 DEF PlaceInv

\* A step of a writer that commits nothing leaves readers and log alone.
LEMMA QuietWriter ==
  ASSUME IInv, Chain, UNCHANGED <<nwp, lost, log, rvars>>, files \subseteq files',
         \A p \in files : p < nwp.pg => mem'[p] = mem[p],
         PlaceInv'
  PROVE  Chain'
<1>1. ChainInv' /\ OrderInv'
  BY ChainKept DEF Chain
<1>2. ASSUME NEW r \in Readers PROVE ReaderOK(r)'
  BY ReaderKept DEF Chain, ReaderChain, rvars
<1>. QED
  BY <1>1, <1>2 DEF Chain, ReaderChain

\* next_write_pos is its own normal form.
LEMMA NormEnd == ASSUME IInv PROVE Norm(nwp.pg, nwp.off) = nwp
BY FrameFacts DEF Norm

\* The steps outside of a frame: Writer::create, prefetch_pages, the death of
\* the process, the lock, and giving up.
LEMMA IdleChain ==
  ASSUME IInv, Chain, NEW w \in Writers,
         \/ CreateLoad(w) \/ CreateOpen(w) \/ CreateFail(w) \/ Prefetch(w) \/ Crash(w)
         \/ OpenFail(w) \/ \E size \in Sizes : OpenLock(w, size)
  PROVE  Chain'
<1> USE ChannelAssumption
<1>0. TypeOK /\ Placed(w)
  BY DEF IInv, Chain, PlaceInv
<1>1. UNCHANGED <<nwp, lost, log, rvars>>
  BY DEF CreateLoad, CreateOpen, CreateFail, Prefetch, Crash, OpenFail, OpenLock
<1>2. files \subseteq files' /\ \A p \in files : mem'[p] = mem[p]
  <2>1. CASE CreateOpen(w) \/ Prefetch(w)
    BY <1>0, <2>1, GetPageKeeps DEF CreateOpen, Prefetch
  <2>2. CASE ~(CreateOpen(w) \/ Prefetch(w))
    BY <2>2 DEF CreateLoad, CreateFail, Crash, OpenFail, OpenLock
  <2>. QED
    BY <2>1, <2>2
<1>3. ASSUME NEW v \in Writers, v # w PROVE Placed(v)'
  <2>1. wpc'[v] = wpc[v] /\ pend'[v] = pend[v] /\ wpos'[v] = wpos[v]
    BY <1>0, <1>3 DEF CreateLoad, CreateOpen, CreateFail, Prefetch, Crash, OpenFail, OpenLock,
                      Goto, TypeOK, wvars
  <2>. QED
    BY <1>1, <1>2, <2>1, OtherPlaced DEF Chain, PlaceInv
<1>4. Placed(w)'
  <2>1. CASE Prefetch(w)
    BY <1>0, <1>1, <1>2, <2>1, OtherPlaced DEF Prefetch, wvars
  <2>2. CASE CreateLoad(w)
    BY <1>0, <1>1, <2>2, NormEnd DEF CreateLoad, Goto, TypeOK, Placed
  <2>3. CASE CreateFail(w) \/ Crash(w)
    BY <1>0, <2>3 DEF CreateFail, Crash, Goto, TypeOK, Placed
  <2>4. CASE CreateOpen(w) \/ OpenFail(w) \/ \E size \in Sizes : OpenLock(w, size)
    BY <1>0, <1>1, <2>4 DEF CreateOpen, OpenFail, OpenLock, Goto, TypeOK, Placed
  <2>. QED
    BY <2>1, <2>2, <2>3, <2>4
<1>5. PlaceInv'
  BY <1>3, <1>4 DEF PlaceInv
<1>. QED
  BY <1>1, <1>2, <1>5, QuietWriter

\* open_frame starts from next_write_pos and goes on to the next page.
LEMMA PositionChain ==
  ASSUME IInv, Chain, NEW w \in Writers, OpenAlign(w) \/ OpenNewPage(w)
  PROVE  Chain'
<1> USE ChannelAssumption
<1>0. TypeOK /\ Placed(w) /\ Writing(w)
  BY DEF IInv, Chain, PlaceInv, OpenAlign, OpenNewPage, Writing
<1>1. UNCHANGED <<nwp, lost, log, rvars>>
  BY DEF OpenAlign, OpenNewPage
<1>2. files \subseteq files' /\ \A p \in files : mem'[p] = mem[p]
  <2>1. CASE OpenNewPage(w)
    BY <1>0, <2>1, GetPageKeeps DEF OpenNewPage
  <2>2. CASE OpenAlign(w) /\ NeedsRealign(w)
    BY <1>0, <2>2, GetPageKeeps DEF OpenAlign
  <2>3. CASE OpenAlign(w) /\ ~NeedsRealign(w)
    BY <2>3 DEF OpenAlign
  <2>. QED
    BY <2>1, <2>2, <2>3
<1>3. Placed(w)'
  <2>1. CASE OpenNewPage(w)
    <3>1. wpc[w] = "crossing" /\ wpc'[w] = "aligned" /\ pend'[w] = pend[w] /\ wpos'[w] = wpos[w]
      BY <1>0, <2>1 DEF OpenNewPage, Goto, TypeOK
    <3>2. Leads(nwp, pend[w])'
      BY <1>0, <1>1, <1>2, <3>1, EndNotLost DEF Placed, Leads, Padding
    <3>. QED
      BY <1>0, <1>1, <3>1, <3>2 DEF Placed
  <2>2. CASE OpenAlign(w)
    <3>1. /\ wpc[w] = "locked" /\ wpc'[w] = "aligned" /\ wpos'[w] = wpos[w]
          /\ pend'[w].pg = WritePos(w).pg /\ pend'[w].off = WritePos(w).off
      BY <1>0, <2>2 DEF OpenAlign, Goto, TypeOK
    <3>2. Norm(WritePos(w).pg, WritePos(w).off) = nwp
      BY <1>0, <3>1, NormEnd DEF WritePos, Placed
    <3>. QED
      BY <1>0, <1>1, <3>1, <3>2 DEF Placed
  <2>. QED
    BY <2>1, <2>2
<1>4. \A v \in Writers : v # w => wpc'[v] = wpc[v] /\ pend'[v] = pend[v] /\ wpos'[v] = wpos[v]
  BY <1>0 DEF OpenAlign, OpenNewPage, Goto, TypeOK
<1>5. PlaceInv'
  BY <1>0, <1>1, <1>2, <1>3, <1>4, OthersPlaced DEF Chain
<1>. QED
  BY <1>1, <1>2, <1>5, QuietWriter

\* What a writer knows of the page and the offset it is about to write.
LEMMA PlaceFacts ==
  ASSUME IInv, Chain, NEW w \in Writers, wpc[w] \in {"aligned", "opened"}
  PROVE  /\ wpage[w] = pend[w].pg /\ pend[w].pg \in Pages
         /\ pend[w].pg \in Nat /\ pend[w].off \in Nat /\ pend[w].size \in Nat
         /\ pend[w].off <= PageSize /\ pend[w].size >= 1 /\ pend[w].size <= PageSize
         /\ pend[w].off < PageSize =>
              /\ Leads(nwp, pend[w]) /\ nwp.pg <= pend[w].pg
              /\ pend[w].off # 0 => pend[w].pg = nwp.pg /\ pend[w].off = nwp.off
         /\ pend[w].off = PageSize => nwp = [pg |-> pend[w].pg + 1, off |-> 0]
<1> USE ChannelAssumption
<1>1. /\ TypeOK /\ Placed(w) /\ wpage[w] = pend[w].pg /\ pend[w].size \in Sizes
  BY DEF IInv, PendInv, PendOK, Chain, PlaceInv, Writing
<1>2. /\ pend[w].pg \in Pages /\ pend[w].pg \in Nat /\ pend[w].off \in Nat
      /\ pend[w].size \in Nat /\ pend[w].off <= PageSize
      /\ pend[w].size >= 1 /\ pend[w].size <= PageSize
  <2>1. pend \in [Writers -> Frame] /\ wpage \in [Writers -> Pages]
    BY <1>1 DEF TypeOK
  <2>2. pend[w] \in Frame
    BY <2>1
  <2>3. pend[w].pg \in Pages /\ pend[w].off \in 0..PageSize
    BY <1>1, <2>1, <2>2 DEF Frame
  <2>4. pend[w].size \in 1..PageSize
    BY <1>1
  <2>. QED
    BY <2>3, <2>4 DEF Pages
<1>3. nwp.pg \in Nat /\ nwp.off \in Nat /\ nwp.off < PageSize
      /\ nwp = [pg |-> nwp.pg, off |-> nwp.off]
  BY FrameFacts
<1>4. CASE Norm(pend[w].pg, pend[w].off) = nwp
  BY <1>1, <1>2, <1>3, <1>4 DEF Norm, Leads
<1>5. CASE Leads(nwp, pend[w])
  BY <1>1, <1>2, <1>3, <1>5 DEF Leads
<1>. QED
  BY <1>1, <1>4, <1>5 DEF Placed

\* open_frame pads, writes its header, and the payload is copied in.
LEMMA WriteChain ==
  ASSUME IInv, Chain, NEW w \in Writers, OpenPad(w) \/ OpenHeader(w) \/ WritePayload(w)
  PROVE  Chain'
<1> USE ChannelAssumption
<1>0. TypeOK /\ Placed(w) /\ Writing(w) /\ wpc[w] \in {"aligned", "opened"}
  BY DEF IInv, Chain, PlaceInv, OpenPad, OpenHeader, WritePayload, Writing
<1>1. UNCHANGED <<nwp, files, lost, log, rvars, wpos>>
  BY DEF OpenPad, OpenHeader, WritePayload
<1>2. /\ wpage[w] = pend[w].pg /\ pend[w].pg \in Pages
      /\ pend[w].pg \in Nat /\ pend[w].off \in Nat /\ pend[w].size \in Nat
      /\ pend[w].off <= PageSize /\ pend[w].size >= 1 /\ pend[w].size <= PageSize
      /\ pend[w].off < PageSize =>
           /\ Leads(nwp, pend[w]) /\ nwp.pg <= pend[w].pg
           /\ pend[w].off # 0 => pend[w].pg = nwp.pg /\ pend[w].off = nwp.off
      /\ pend[w].off = PageSize => nwp = [pg |-> pend[w].pg + 1, off |-> 0]
  BY <1>0, PlaceFacts
<1>3. nwp.pg \in Nat /\ nwp.off \in Nat /\ nwp.off < PageSize
  BY FrameFacts
<1>4. mem \in [Pages -> [Offsets -> Cell]] /\ files \subseteq Pages
  BY <1>0 DEF TypeOK
<1>5. pend[w].off < PageSize \/ mem' = mem
  <2>1. CASE OpenPad(w)
    BY <1>2, <2>1 DEF OpenPad, Remaining
  <2>2. CASE OpenHeader(w)
    BY <1>2, <2>2 DEF OpenHeader, Fits, Remaining
  <2>3. CASE WritePayload(w)
    <3>1. pend[w].off + pend[w].size <= PageSize
      BY <2>3 DEF WritePayload, IInv, PendInv, PendOK
    <3>. QED
      BY <1>2, <3>1
  <2>. QED
    BY <2>1, <2>2, <2>3
<1>6. ASSUME NEW p \in Pages, p # pend[w].pg PROVE mem'[p] = mem[p]
  <2>1. CASE OpenPad(w)
    BY <1>2, <1>4, <1>6, <2>1 DEF OpenPad
  <2>2. CASE OpenHeader(w)
    BY <1>2, <1>4, <1>6, <2>2 DEF OpenHeader
  <2>3. CASE WritePayload(w)
    BY <1>2, <1>4, <1>6, <2>3 DEF WritePayload
  <2>. QED
    BY <2>1, <2>2, <2>3
<1>7. \A p \in files : p < nwp.pg => mem'[p] = mem[p]
  <2>1. CASE mem' = mem
    BY <2>1
  <2>2. CASE pend[w].off < PageSize
    <3>1. ASSUME NEW p \in files, p < nwp.pg PROVE p # pend[w].pg
      BY <1>2, <1>3, <1>4, <2>2, <3>1 DEF Pages
    <3>. QED
      BY <1>4, <1>6, <3>1
  <2>. QED
    BY <1>5, <2>1, <2>2
<1>8. Placed(w)'
  <2>1. CASE OpenPad(w)
    <3>1. wpc'[w] = "crossing" /\ pend'[w].pg = pend[w].pg + 1 /\ pend'[w].off = 0
      BY <1>0, <2>1 DEF OpenPad, Goto, TypeOK
    <3>2. CASE pend[w].off < PageSize
      <4>1. pend[w].off # 0
        BY <1>2, <2>1 DEF OpenPad, Fits, Remaining
      <4>2. pend[w].pg = nwp.pg /\ pend[w].off = nwp.off
        BY <1>2, <3>2, <4>1
      <4>3. mem'[nwp.pg][nwp.off] = Padding(PageSize - nwp.off)
        <5>1. mem' = [mem EXCEPT ![nwp.pg] = [@ EXCEPT ![nwp.off] = Padding(PageSize - nwp.off)]]
          BY <1>2, <2>1, <3>2, <4>2 DEF OpenPad, Remaining
        <5>2. nwp.pg \in Pages /\ nwp.off \in Offsets
          BY <1>2, <1>3, <4>2 DEF Offsets
        <5>. QED
          BY <1>4, <5>1, <5>2
      <4>4. nwp.pg \in files \cup lost
        BY <1>0, <1>2, <4>2 DEF IInv, MapInv, MapOK
      <4>5. Leads(nwp, pend[w])'
        BY <1>1, <3>1, <4>2, <4>3, <4>4 DEF Leads, Padding
      <4>. QED
        BY <1>0, <1>1, <3>1, <4>5 DEF Placed
    <3>3. CASE pend[w].off = PageSize
      <4>1. Leads(nwp, pend[w])'
        BY <1>1, <1>2, <3>1, <3>3 DEF Leads
      <4>. QED
        BY <1>0, <1>1, <3>1, <4>1 DEF Placed
    <3>. QED
      BY <1>2, <3>2, <3>3
  <2>2. CASE OpenHeader(w) \/ WritePayload(w)
    <3>1. wpc'[w] \in {"opened", "filled"} /\ pend' = pend
      BY <1>0, <2>2 DEF OpenHeader, WritePayload, Goto, TypeOK
    <3>2. pend[w].off < PageSize
      <4>1. CASE OpenHeader(w)
        BY <1>2, <4>1 DEF OpenHeader, Fits, Remaining
      <4>2. CASE WritePayload(w)
        <5>1. pend[w].off + pend[w].size <= PageSize
          BY <4>2 DEF WritePayload, IInv, PendInv, PendOK
        <5>. QED
          BY <1>2, <5>1
      <4>. QED
        BY <2>2, <4>1, <4>2
    <3>3. Leads(nwp, pend[w])
      BY <1>2, <3>2
    <3>4. CASE pend[w].pg = nwp.pg /\ pend[w].off = nwp.off
      BY <1>0, <1>1, <3>1, <3>4 DEF Leads, Placed
    <3>5. CASE ~(pend[w].pg = nwp.pg /\ pend[w].off = nwp.off)
      <4>1. /\ pend[w].pg = nwp.pg + 1 /\ pend[w].off = 0
            /\ nwp.pg \in files \cup lost
            /\ nwp.pg \notin lost => mem[nwp.pg][nwp.off] = Padding(PageSize - nwp.off)
        BY <3>3, <3>5 DEF Leads
      <4>2. nwp.pg \in Pages /\ nwp.pg # pend[w].pg
        BY <1>0, <1>3, <4>1 DEF TypeOK
      <4>3. mem'[nwp.pg] = mem[nwp.pg]
        BY <1>6, <4>2
      <4>4. Leads(nwp, pend[w])'
        BY <1>1, <3>1, <4>1, <4>3 DEF Leads, Padding
      <4>. QED
        BY <1>0, <1>1, <3>1, <4>4 DEF Placed
    <3>. QED
      BY <3>4, <3>5
  <2>. QED
    BY <2>1, <2>2
<1>9. \A v \in Writers : v # w => wpc'[v] = wpc[v] /\ pend'[v] = pend[v] /\ wpos'[v] = wpos[v]
  BY <1>0 DEF OpenPad, OpenHeader, WritePayload, Goto, TypeOK
<1>10. PlaceInv'
  BY <1>0, <1>1, <1>8, <1>9, OthersPlaced DEF Chain
<1>. QED
  BY <1>1, <1>7, <1>10, QuietWriter

\* close_frame appends to the log what open_frame has placed.
LEMMA AppendFacts ==
  ASSUME IInv, NEW w \in Writers, CloseFrame(w)
  PROVE  /\ log' = Append(log, pend[w]) /\ pend[w].id \in FrameIds
         /\ Len(log') = Len(log) + 1 /\ log'[Len(log) + 1] = pend[w]
         /\ \A i \in 1..Len(log) : log'[i] = log[i]
<1> USE ChannelAssumption
<1> DEFINE S == [pg : Pages, off : Offsets, size : 1..PageSize, id : FrameIds]
<1>1. log \in Seq(S) /\ log' = Append(log, pend[w])
  BY DEF IInv, TypeOK, CloseFrame
<1>2. pend[w].id \in FrameIds
  BY DEF CloseFrame, IInv, PendInv, PendOK, Writing
<1>3. /\ Len(log') = Len(log) + 1 /\ log'[Len(log) + 1] = pend[w]
      /\ \A i \in 1..Len(log) : log'[i] = log[i]
  <2>. HIDE DEF S
  <2>. QED
    BY <1>1
<1>. QED
  BY <1>1, <1>2, <1>3

\* close_frame makes the walk one frame longer.
LEMMA CloseChain ==
  ASSUME IInv, Chain, NEW w \in Writers, CloseFrame(w)
  PROVE  Chain'
<1> USE ChannelAssumption
<1> DEFINE f == pend[w]
           n == Len(log)
<1>0. TypeOK /\ Placed(w) /\ Writing(w) /\ ChainInv /\ OrderInv
  BY DEF IInv, Chain, PlaceInv, CloseFrame, Writing
<1>1. /\ n \in Nat /\ Len(log') = n + 1 /\ log'[n + 1] = f
      /\ \A i \in 1..n : log'[i] = log[i]
  BY AppendFacts, FrameFacts
<1>2. /\ nwp' = Norm(f.pg, f.off + f.size)
      /\ UNCHANGED <<files, mem, lost, rvars>>
  BY DEF CloseFrame
<1>3. \A i \in 0..n : End(i)' = End(i)
  BY <1>1 DEF End
<1>4. End(Len(log))' = nwp'
  BY <1>1, <1>2 DEF End
<1>5. Leads(nwp, f) /\ nwp = End(n)
  BY <1>0 DEF CloseFrame, Placed, ChainInv
<1>6. ChainInv'
  <2>1. ASSUME NEW i \in 1..Len(log') PROVE Leads(End(i - 1), log[i])'
    <3>1. CASE i \in 1..n
      <4>1. i - 1 \in 0..n /\ Leads(End(i - 1), log[i])
        BY <1>0, <1>1, <3>1 DEF ChainInv
      <4>. QED
        BY <1>1, <1>2, <1>3, <3>1, <4>1 DEF Leads, Padding
    <3>2. CASE i = n + 1
      <4>1. i - 1 = n /\ n \in 0..n
        BY <1>1, <3>2
      <4>. QED
        BY <1>1, <1>2, <1>3, <1>5, <3>2, <4>1 DEF Leads, Padding
    <3>. QED
      BY <1>1, <3>1, <3>2
  <2>. QED
    BY <1>1, <1>4, <2>1 DEF ChainInv
<1>7. OrderInv'
  <2>1. f.pg \in Nat /\ nwp.pg \in Nat /\ nwp.pg <= f.pg
    <3>1. f.pg \in Nat
      BY <1>0 DEF TypeOK, Frame
    <3>. QED
      BY <1>5, <3>1, FrameFacts DEF Leads
  <2>2. \A i \in 1..n : log[i].pg \in Nat /\ log[i].pg <= nwp.pg
    BY FrameFacts
  <2>3. ASSUME NEW i \in 1..Len(log'), NEW j \in 1..Len(log'), i <= j
        PROVE  log'[i].pg <= log'[j].pg
    <3>1. CASE j \in 1..n
      <4>1. i \in 1..n
        BY <1>1, <2>3, <3>1
      <4>. QED
        BY <1>0, <1>1, <2>3, <3>1, <4>1 DEF OrderInv
    <3>2. CASE j = n + 1 /\ i \in 1..n
      BY <1>1, <2>1, <2>2, <3>2
    <3>3. CASE j = n + 1 /\ i = n + 1
      BY <1>1, <2>1, <3>3
    <3>. QED
      BY <1>1, <3>1, <3>2, <3>3
  <2>. QED
    BY <2>3 DEF OrderInv
<1>8. PlaceInv'
  <2>1. wpc'[w] = "idle"
    BY <1>0 DEF CloseFrame, Goto, TypeOK
  <2>2. Placed(w)'
    BY <1>0, <1>2, <2>1 DEF CloseFrame, TypeOK, Placed
  <2>3. ASSUME NEW v \in Writers, v # w PROVE Placed(v)'
    <3>1. ~Writing(v) /\ ~NullLock /\ wpc'[v] = wpc[v]
      BY <1>0, <2>3, WriterAlone DEF CloseFrame, Goto, TypeOK
    <3>. QED
      BY <3>1 DEF Placed, Writing
  <2>. QED
    BY <2>2, <2>3 DEF PlaceInv
<1>9. ASSUME NEW r \in Readers PROVE ReaderOK(r)'
  <2>1. ReaderOK(r) /\ cur[r] \in Nat
    BY <1>0 DEF Chain, ReaderChain, TypeOK
  <2>2. ASSUME NEW p, Stands(p, cur[r]) PROVE Stands(p, cur[r])'
    <3>1. cur[r] \in 0..n /\ cur'[r] = cur[r]
      BY <1>1, <1>2, <2>1, <2>2 DEF Stands, rvars
    <3>2. cur[r] < n => cur[r] + 1 \in 1..n
      BY <1>1, <2>1
    <3>. QED
      BY <1>1, <1>3, <2>2, <3>1, <3>2 DEF Stands
  <2>3. rpos'[r] = rpos[r] /\ rloc'[r] = rloc[r] /\ cur'[r] = cur[r]
    BY <1>2 DEF rvars
  <2>4. Live(r) => Stands(rpos[r], cur[r])' /\ Stands(rloc[r], cur[r])'
    BY <2>1, <2>2, <2>3 DEF ReaderOK, Stands
  <2>5. rpc[r] = "reading" => cur[r] < Len(log')
    BY <1>1, <2>1 DEF ReaderOK
  <2>. QED
    BY <1>2, <2>1, <2>4, <2>5 DEF ReaderOK, Live, rvars
<1>. QED
  BY <1>6, <1>7, <1>8, <1>9 DEF Chain, ReaderChain

-----------------------------------------------------------------------------
(* The theorems *)

\* Every step keeps the walk.
LEMMA NextChain == IInv /\ Chain /\ [Next]_vars => Chain'
<1> SUFFICES ASSUME IInv, Chain, [Next]_vars PROVE Chain'
  OBVIOUS
<1>1. ASSUME NEW w \in Writers, WriterStep(w) PROVE Chain'
  BY <1>1, IdleChain, PositionChain, WriteChain, CloseChain DEF WriterStep
<1>2. CASE UNCHANGED vars
  <2>1. PlaceInv'
    BY <1>2 DEF Chain, PlaceInv, Placed, Leads, vars, wvars
  <2>. QED
    BY <1>2, <2>1, QuietWriter DEF vars
<1>. QED
  BY <1>1, <1>2, ReaderStepChain, CleanupChain DEF Next

\* Both invariants hold in every reachable state.
THEOREM ChainInvariance == Spec => [](IInv /\ Chain)
<1>1. Init => IInv /\ Chain
  BY InitInv, InitChain
<1>2. (IInv /\ Chain) /\ [Next]_vars => (IInv /\ Chain)'
  BY NextInv, NextChain
<1>. QED
  BY <1>1, <1>2, PTL DEF Spec

\* PageCleaner::cleanup never deletes a page that holds a frame a live reader
\* has yet to read, for any number of readers, any policy and any moment at
\* which it runs.
THEOREM ReadersKeepTheirPages == Spec => []PagesInUseKept
<1>1. ASSUME IInv, Chain PROVE PagesInUseKept
  <2> USE ChannelAssumption
  <2> SUFFICES ASSUME NEW r \in Readers, Live(r), NEW i \in (cur[r] + 1)..Len(log)
               PROVE  log[i].pg \in files \ lost
    BY DEF PagesInUseKept
  <2> DEFINE k == cur[r] + 1
  <2>1. /\ Stands(rpos[r], cur[r]) /\ rpos[r].off <= PageSize
        /\ \A p \in lost : p < rpos[r].pg
    BY <1>1 DEF Chain, ReaderChain, ReaderOK
  <2>2. cur[r] \in Nat /\ rpos[r] \in Pos
    BY <1>1 DEF IInv, TypeOK
  <2>3. rpos[r].pg \in Nat /\ rpos[r].off \in Nat
    BY <2>2 DEF Pos
  <2>4. k \in 1..Len(log) /\ i \in 1..Len(log) /\ k <= i /\ cur[r] \in 0..Len(log)
    BY <1>1, <2>2, FrameFacts
  <2>5. /\ log[k].pg \in Nat /\ log[i].pg \in Nat /\ log[i].pg \in files \cup lost
        /\ log[k].pg <= log[i].pg
    BY <1>1, <2>4, FrameFacts DEF Chain, OrderInv
  <2>6. End(cur[r]).pg \in Nat
    BY <1>1, <2>4, EndFacts
  <2>7. Leads(End(cur[r]), log[k])
    <3>1. \A j \in 1..Len(log) : Leads(End(j - 1), log[j])
      BY <1>1 DEF Chain, ChainInv
    <3>2. k - 1 = cur[r]
      BY <2>2
    <3>3. Leads(End(k - 1), log[k])
      BY <2>4, <3>1
    <3>. QED
      BY <3>2, <3>3
  <2>8. rpos[r].pg <= Norm(rpos[r].pg, rpos[r].off).pg
    BY <2>1, <2>3, NormFacts
  <2>9. rpos[r].pg <= log[k].pg
    BY <2>1, <2>3, <2>5, <2>6, <2>7, <2>8 DEF Stands, Leads
  <2>10. \A p \in lost : p \in Nat
    BY <1>1 DEF IInv, TypeOK, Pages
  <2>11. log[i].pg \notin lost
    BY <2>1, <2>3, <2>5, <2>9, <2>10
  <2>. QED
    BY <2>5, <2>11
<1>. QED
  BY <1>1, ChainInvariance, PTL

-----------------------------------------------------------------------------
(* The refinement of FrameLog *)

ids == [i \in 1..Len(log) |-> log[i].id]
present == {r \in Readers : rpc[r] \notin {"off", "exited"}}

\* A step that neither commits nor moves a reader is a stutter of FrameLog.
LEMMA StutterRefines ==
  ASSUME UNCHANGED <<log, cur, last>>, present' = present
  PROVE  UNCHANGED Log!logVars
BY DEF Log!logVars, present

\* A writer's step is a stutter, or the commit of one frame.
LEMMA WriterRefines ==
  ASSUME IInv, NEW w \in Writers, WriterStep(w)
  PROVE  [Log!LogNext]_(Log!logVars)
<1>1. CASE CloseFrame(w)
  <2>1. /\ log' = Append(log, pend[w]) /\ pend[w].id \in FrameIds
        /\ Len(log') = Len(log) + 1 /\ log'[Len(log) + 1] = pend[w]
        /\ \A i \in 1..Len(log) : log'[i] = log[i]
    BY <1>1, AppendFacts
  <2>2. Len(log) \in Nat
    BY FrameFacts
  <2>3. ids' = Append(ids, pend[w].id)
    <3>1. ids \in Seq(FrameIds) /\ Len(ids) = Len(log)
      BY <2>2, FrameFacts DEF ids
    <3>2. Append(ids, pend[w].id) = [i \in 1..(Len(log) + 1) |->
                                        IF i <= Len(log) THEN ids[i] ELSE pend[w].id]
      BY <2>1, <2>2, <3>1
    <3>. QED
      BY <2>1, <2>2, <3>2 DEF ids
  <2>4. UNCHANGED <<cur, last>> /\ present' = present
    BY <1>1 DEF CloseFrame, rvars, present
  <2>5. PICK id \in FrameIds : id = pend[w].id
    BY <2>1
  <2>6. Log!Commit(id)
    BY <2>3, <2>4, <2>5 DEF Log!Commit, ids, present
  <2>7. Log!LogNext
    BY <2>6 DEF Log!LogNext
  <2>. QED
    BY <2>7
<1>2. CASE ~CloseFrame(w)
  <2>1. UNCHANGED <<log, rvars>>
    BY <1>2 DEF WriterStep, CreateLoad, CreateOpen, CreateFail, OpenLock, OpenAlign, OpenPad,
                OpenNewPage, OpenFail, OpenHeader, WritePayload, Prefetch, Crash
  <2>2. UNCHANGED Log!logVars
    BY <2>1, StutterRefines DEF rvars, present
  <2>. QED
    BY <2>2
<1>. QED
  BY <1>1, <1>2

\* A reader's step is a stutter, or it joins, leaves, or gets the frame that
\* is next in the log.
LEMMA ReaderRefines ==
  ASSUME IInv, Chain, NEW r \in Readers, ReaderStep(r)
  PROVE  [Log!LogNext]_(Log!logVars)
<1> USE ChannelAssumption
<1>0. TypeOK /\ ReaderOK(r)
  BY DEF IInv, Chain, ReaderChain
<1>1. CASE ReaderLoad(r)
  <2>1. r \notin present /\ present' = present \cup {r}
    BY <1>0, <1>1 DEF ReaderLoad, RGoto, TypeOK, present
  <2>2. cur' = [cur EXCEPT ![r] = Len(log)] /\ UNCHANGED <<log, last>> /\ last[r] = <<>>
    BY <1>0, <1>1 DEF ReaderLoad, ReaderOK
  <2>3. last = [last EXCEPT ![r] = <<>>]
    BY <1>0, <2>2 DEF TypeOK
  <2>4. Len(ids) = Len(log)
    BY FrameFacts DEF ids
  <2>5. Log!Join(r)
    BY <2>1, <2>2, <2>3, <2>4 DEF Log!Join, present, ids
  <2>. QED
    BY <2>5 DEF Log!LogNext
<1>2. CASE ReaderExit(r)
  <2>1. r \in present /\ present' = present \ {r}
    BY <1>0, <1>2 DEF ReaderExit, RGoto, TypeOK, present
  <2>2. Log!Leave(r)
    BY <1>2, <2>1 DEF ReaderExit, Log!Leave, present
  <2>. QED
    BY <2>2 DEF Log!LogNext
<1>3. CASE NextDeliver(r)
  <2>1. r \in present /\ present' = present
    BY <1>0, <1>3 DEF NextDeliver, RGoto, TypeOK, present
  <2>2. /\ cur[r] \in Nat /\ cur[r] + 1 \in 1..Len(log)
        /\ FrameAt(r) = log[cur[r] + 1].id
    BY <1>3, WalkStep DEF NextDeliver, Padding
  <2>3. cur[r] < Len(log) /\ Len(ids) = Len(log) /\ ids[cur[r] + 1] = FrameAt(r)
    BY <2>2, FrameFacts DEF ids
  <2>4. Log!Deliver(r)
    BY <1>3, <2>1, <2>3 DEF NextDeliver, Log!Deliver, present, ids
  <2>. QED
    BY <2>4 DEF Log!LogNext
<1>4. CASE ~(ReaderLoad(r) \/ ReaderExit(r) \/ NextDeliver(r))
  <2>1. UNCHANGED <<log, cur, last>>
    BY <1>4 DEF ReaderStep, AddReader, ReaderOpen, NextFrame, NextPage, NextFill,
                ReleaseOldPages, RemoveReader
  <2>2. present' = present
    BY <1>0, <1>4 DEF ReaderStep, AddReader, ReaderOpen, NextFrame, NextPage, NextFill,
                      ReleaseOldPages, RemoveReader, RGoto, TypeOK, present
  <2>3. UNCHANGED Log!logVars
    BY <2>1, <2>2, StutterRefines
  <2>. QED
    BY <2>3
<1>. QED
  BY <1>1, <1>2, <1>3, <1>4

\* Writer, Reader, PagePool and PageCleaner implement the append-only log:
\* each reader gets every frame committed after it joined, whole, once and
\* in the order of the commits, whatever writers die in the middle of a
\* frame and whatever pages are created, padded and deleted meanwhile.
THEOREM ChannelImplementsLog == Spec => ImplementsFrameLog
<1>1. Init => Log!LogInit
  <2> SUFFICES ASSUME Init PROVE Log!LogInit
    OBVIOUS
  <2>1. ids = <<>> /\ present = {}
    BY DEF Init, ids, present
  <2>. QED
    BY <2>1 DEF Init, Log!LogInit, ids, present
<1>2. ASSUME IInv, Chain, [Next]_vars PROVE [Log!LogNext]_(Log!logVars)
  <2>1. CASE UNCHANGED vars
    BY <2>1, StutterRefines DEF vars, rvars, present
  <2>2. CASE Cleanup
    BY <2>2, StutterRefines DEF Cleanup, rvars, present
  <2>. QED
    BY <1>2, <2>1, <2>2, WriterRefines, ReaderRefines DEF Next
<1>3. Spec => Log!LogSpec
  BY <1>1, <1>2, ChainInvariance, PTL DEF Spec, Log!LogSpec
<1>. QED
  BY <1>3 DEF ImplementsFrameLog

-----------------------------------------------------------------------------
(***************************************************************************)
(* ClockHonest is an invariant of ClockSpec.                               *)
(*                                                                         *)
(* A round in flight counts its open slots: those still to be sent, and    *)
(* those whose request is pending (RoundInv).  A pending slot has a        *)
(* request under way that was sent with its stamps (CallsInv), so that a   *)
(* sample is measured against the right request; an open slot belongs to   *)
(* a server that is not blocked and to no other slot, so that nothing      *)
(* lifts a DENY (KissInv).  OutcomeInv keeps what a round handed over.     *)
(***************************************************************************)

(* Settled: an entry is a measurement or has an error, and a measurement is
   within its bound. *)
Sampled(d) ==
    /\ d.rtt \in Nat /\ d.bound \in Nat /\ d.offset \in Int
    /\ Abs(d.offset - Local) <= d.bound + 1

Settled(d) == (d.ok <=> d.error = "") /\ (d.ok => Sampled(d))

RoundType == [in_flight : BOOLEAN, token : Nat, hosts : Seq(Hosts), remaining : Nat, issuing : BOOLEAN]

PendingType == [t1 : Int, sent : Nat, settled : BOOLEAN]

KissType == [blocked : BOOLEAN, until : Nat]

CallType == [slot : Nat, token : Nat, host : Hosts, t1 : Int, sent : Nat, left : Int]

(* The servers of a list, one entry each. *)
Entries(ds, hosts) ==
    /\ DOMAIN ds = Firsts(hosts)
    /\ \A i \in Firsts(hosts) : ds[i].host = hosts[i]

Waiting(p) == {i \in DOMAIN p : ~ p[i].settled}

Open(s, p) == s \cup Waiting(p)

ClockType ==
    /\ steady \in Nat /\ steady <= MaxSteady
    /\ round \in RoundType
    /\ kiss \in [Hosts -> KissType]

RoundInv ==
    round.in_flight =>
        /\ Entries(details, round.hosts)
        /\ pending \in [Firsts(round.hosts) -> PendingType]
        /\ slots \subseteq Firsts(round.hosts)
        /\ \A i \in slots : pending[i].settled /\ skip_reason(round.hosts[i]) = ""
        /\ round.remaining = Cardinality(Open(slots, pending))
        /\ ~ round.issuing => slots = {}
        /\ \A i \in Firsts(round.hosts) : i \in Open(slots, pending) \/ Settled(details[i])
        /\ \A i \in Open(slots, pending) : ~ kiss[round.hosts[i]].blocked

(* A request of the round in flight. *)
OfRound(c) ==
    /\ c.slot \in Firsts(round.hosts) \ slots /\ c.host = round.hosts[c.slot]
    /\ ~ pending[c.slot].settled => pending[c.slot].t1 = c.t1 /\ pending[c.slot].sent = c.sent

CallsInv ==
    /\ calls \subseteq CallType
    /\ \A c \in calls :
          /\ c.token <= round.token /\ c.sent <= steady
          /\ c.t1 = from_unix_nanoseconds(c.sent + Local)
          /\ round.in_flight /\ c.token = round.token => OfRound(c)
    /\ round.in_flight =>
          \A i \in Waiting(pending) : \E c \in calls : c.token = round.token /\ c.slot = i

Keeps(k, entry) ==
    /\ k.code \in {"RATE", "DENY", "RSTR"}
    /\ entry.blocked \/ (k.code = "RATE" /\ entry.until >= k.at + Backoff)

KissInv ==
    /\ \A k \in kisses : /\ k.host \in Hosts /\ k.token \in Nat /\ k.token <= round.token
                         /\ k.at \in Nat /\ k.at <= steady /\ Keeps(k, kiss[k.host])
    /\ KissesKept

OutcomeInv ==
    /\ outcome.count = round.token - (IF round.in_flight THEN 1 ELSE 0)
    /\ outcome.count > 0 =>
         /\ outcome.token = outcome.count
         /\ outcome.hosts \in Seq(Hosts)
         /\ Entries(outcome.servers, outcome.hosts)
         /\ \A i \in Firsts(outcome.hosts) : Settled(outcome.servers[i])
         /\ outcome.best = best_server(outcome.servers)
         /\ outcome.offset = IF outcome.best = 0 THEN NoValue ELSE outcome.servers[outcome.best].offset
         /\ outcome.bound = IF outcome.best = 0 THEN NoValue ELSE outcome.servers[outcome.best].bound

CInv == ClockType /\ RoundInv /\ CallsInv /\ KissInv /\ OutcomeInv

-----------------------------------------------------------------------------
(* Lemmas about numbers and time stamps. *)

(* Every set of natural numbers that is not empty has a least element. *)
LEMMA Least ==
    ASSUME NEW S \in SUBSET Nat, S # {}
    PROVE  \E x \in S : \A y \in S : x <= y
<1>1. IsWellFoundedOn(OpToRel(<, Nat), Nat)
  BY NatLessThanWellFounded
<1>2. PICK x \in S : \A y \in S : ~(<<y, x>> \in OpToRel(<, Nat))
  BY <1>1, WFMin
<1>3. \A y \in S : ~(y < x)
  BY <1>2 DEF OpToRel
<1>. QED
  BY <1>3

LEMMA MinIsLeast ==
    ASSUME NEW S \in SUBSET Nat, S # {}
    PROVE  Min(S) \in S /\ \A y \in S : Min(S) <= y
<1>1. \E x \in S : \A y \in S : x <= y
  BY Least
<1>. QED
  BY <1>1 DEF Min

(* Multiples of an era are far apart. *)
LEMMA Multiples ==
    ASSUME NEW n \in Nat, NEW k \in Int
    PROVE  /\ n * k \in Int
           /\ k >= 2 => n * k >= n + n
           /\ k <= -2 => n * k <= - (n + n)
           /\ k = 1 => n * k = n
           /\ k = 0 => n * k = 0
           /\ k = -1 => n * k = - n
<1>1. n * k \in Int /\ (k = 1 => n * k = n) /\ (k = 0 => n * k = 0) /\ (k = -1 => n * k = -n)
  OBVIOUS
<1>2. k >= 2 => n * k >= n + n
  <2>1. SUFFICES ASSUME k >= 2 PROVE n * k >= n + n
    OBVIOUS
  <2>2. n * k = n + n + n * (k - 2) /\ n * (k - 2) >= 0
    BY <2>1
  <2>. QED  BY <2>2, <1>1
<1>3. k <= -2 => n * k <= - (n + n)
  <2>1. SUFFICES ASSUME k <= -2 PROVE n * k <= - (n + n)
    OBVIOUS
  <2>2. n * k = - (n + n) - n * (- k - 2) /\ n * (- k - 2) >= 0
    BY <2>1
  <2>. QED  BY <2>2, <1>1
<1>. QED
  BY <1>1, <1>2, <1>3

(* Two time stamps less than half an era apart: their difference is the
   difference of the times. *)
LEMMA NearStamps ==
    ASSUME NEW a \in Int, NEW b \in Int, Era \in Nat, Era > 0,
           2 * (a - b) < Era, 2 * (b - a) < Era
    PROVE  difference_nanoseconds(from_unix_nanoseconds(a), from_unix_nanoseconds(b)) = a - b
<1> DEFINE r == a % Era
           s == b % Era
           k == (a \div Era) - (b \div Era)
           half == Era \div 2
<1>1. /\ r \in 0..(Era - 1) /\ s \in 0..(Era - 1)
      /\ a = Era * (a \div Era) + r /\ b = Era * (b \div Era) + s
      /\ a \div Era \in Int /\ b \div Era \in Int
  OBVIOUS
<1>2. k \in Int /\ a - b = Era * k + (r - s)
  BY <1>1
<1>3. half \in Nat /\ 2 * half <= Era /\ Era <= 2 * half + 1
  OBVIOUS
<1> HIDE DEF r, s, k, half
<1>4. /\ k >= 2 => Era * k >= Era + Era
      /\ k <= -2 => Era * k <= - (Era + Era)
      /\ k = 1 => Era * k = Era
      /\ k = 0 => Era * k = 0
      /\ k = -1 => Era * k = - Era
  BY <1>2, Multiples
<1>5. Era * k \in Int
  BY <1>2, Multiples
<1>6. k \in {-1, 0, 1}
  BY <1>1, <1>2, <1>4, <1>5
<1>7. CASE k = 0
  <2>1. a - b = r - s
    BY <1>2, <1>4, <1>7, <1>1
  <2>2. ~(r - s > half) /\ ~(r - s < - half)
    BY <2>1, <1>1, <1>3
  <2>. QED
    BY <2>1, <2>2 DEF difference_nanoseconds, from_unix_nanoseconds, r, s, half
<1>8. CASE k = 1
  <2>1. a - b = r - s + Era
    BY <1>2, <1>4, <1>8, <1>1
  <2>2. ~(r - s > half) /\ r - s < - half
    BY <2>1, <1>1, <1>3
  <2>. QED
    BY <2>1, <2>2 DEF difference_nanoseconds, from_unix_nanoseconds, r, s, half
<1>9. CASE k = -1
  <2>1. a - b = r - s - Era
    BY <1>2, <1>4, <1>9, <1>1
  <2>2. r - s > half /\ ~(r - s < - half)
    BY <2>1, <1>1, <1>3
  <2>. QED
    BY <2>1, <2>2 DEF difference_nanoseconds, from_unix_nanoseconds, r, s, half
<1>. QED
  BY <1>6, <1>7, <1>8, <1>9

(* The two halves of an exchange: f from the request to the server, g back. *)
LEMMA OffsetWithin ==
    ASSUME NEW f \in Nat, NEW g \in Nat, NEW l \in Int, NEW d \in Nat
    PROVE  LET offset == Halved((l - f) + (l + g))
               bound  == (f + g) \div 2 + d
           IN  /\ offset \in Int /\ bound \in Nat
               /\ Abs(offset - l) <= bound + 1
  BY DEF Halved, Abs

-----------------------------------------------------------------------------
(* Lemmas about the answers, the list of servers and the best of them. *)

(* A sample of stamps taken between request and answer is within its bound. *)
LEMMA SampleHonest ==
    ASSUME ClockType, NEW sent \in Nat, NEW t2 \in sent..steady, NEW t3 \in sent..steady
    PROVE  LET s == derive_sample(from_unix_nanoseconds(sent + Local), from_unix_nanoseconds(t2),
                                  from_unix_nanoseconds(t3), from_unix_nanoseconds(steady + Local),
                                  steady - sent)
           IN  s.ok \in BOOLEAN /\ (s.ok => Sampled(s))
<1> DEFINE diff(x, y) == difference_nanoseconds(from_unix_nanoseconds(x), from_unix_nanoseconds(y))
           f == t2 - sent
           g == steady - t3
           s == derive_sample(from_unix_nanoseconds(sent + Local), from_unix_nanoseconds(t2),
                              from_unix_nanoseconds(t3), from_unix_nanoseconds(steady + Local),
                              steady - sent)
<1>1. /\ steady \in Nat /\ MaxSteady \in Nat /\ steady <= MaxSteady /\ Local \in Int
      /\ Dispersion \in Nat /\ Era \in Nat /\ Era > 2 * (Abs(Local) + MaxSteady) /\ Era > 0
  BY ClockAssumption DEF ClockType
<1>2. diff(t3, t2) = t3 - t2
  <2>1. 2 * (t3 - t2) < Era /\ 2 * (t2 - t3) < Era
    BY <1>1 DEF Abs
  <2>. QED  BY <2>1, <1>1, NearStamps
<1>3. diff(sent + Local, t2) = Local - f
  <2>1. 2 * ((sent + Local) - t2) < Era /\ 2 * (t2 - (sent + Local)) < Era
    BY <1>1 DEF Abs
  <2>2. diff(sent + Local, t2) = (sent + Local) - t2
    BY <2>1, <1>1, NearStamps
  <2>. QED  BY <2>2, <1>1
<1>4. diff(steady + Local, t3) = Local + g
  <2>1. 2 * ((steady + Local) - t3) < Era /\ 2 * (t3 - (steady + Local)) < Era
    BY <1>1 DEF Abs
  <2>2. diff(steady + Local, t3) = (steady + Local) - t3
    BY <2>1, <1>1, NearStamps
  <2>. QED  BY <2>2, <1>1
<1>5. CASE t3 - t2 < 0 \/ (steady - sent) - (t3 - t2) < 0
  <2>1. s = [ok |-> FALSE]
    BY <1>2, <1>5 DEF derive_sample
  <2>2. s.ok = FALSE
    BY <2>1
  <2>. QED  BY <2>2
<1>6. CASE ~(t3 - t2 < 0 \/ (steady - sent) - (t3 - t2) < 0)
  <2>1. f \in Nat /\ g \in Nat /\ (steady - sent) - (t3 - t2) = f + g
    BY <1>1
  <2>2. s = [ok |-> TRUE, offset |-> Halved((Local - f) + (Local + g)), rtt |-> f + g,
             bound |-> (f + g) \div 2 + Dispersion]
    BY <1>2, <1>3, <1>4, <1>6, <2>1 DEF derive_sample
  <2> HIDE DEF f, g
  <2>3. /\ Halved((Local - f) + (Local + g)) \in Int /\ (f + g) \div 2 + Dispersion \in Nat
        /\ Abs(Halved((Local - f) + (Local + g)) - Local) <= (f + g) \div 2 + Dispersion + 1
    BY <1>1, <2>1, OffsetWithin
  <2>4. s.ok = TRUE /\ s.rtt \in Nat /\ s.bound \in Nat /\ s.offset \in Int
        /\ Abs(s.offset - Local) <= s.bound + 1
    BY <2>1, <2>2, <2>3
  <2>. QED  BY <2>4 DEF Sampled
<1>. QED
  BY <1>5, <1>6

(* Server stamps that run backwards make no sample. *)
LEMMA BackwardsRejected ==
    ASSUME ClockType, NEW t1, NEW t4, NEW elapsed
    PROVE  derive_sample(t1, from_unix_nanoseconds(steady + 1), from_unix_nanoseconds(steady), t4,
                         elapsed) = [ok |-> FALSE]
<1>1. steady \in Nat /\ Era \in Nat /\ Era > 2
  BY ClockAssumption DEF ClockType
<1>2. difference_nanoseconds(from_unix_nanoseconds(steady), from_unix_nanoseconds(steady + 1))
        = steady - (steady + 1)
  BY <1>1, NearStamps
<1>3. difference_nanoseconds(from_unix_nanoseconds(steady), from_unix_nanoseconds(steady + 1)) < 0
  BY <1>1, <1>2
<1>. QED
  BY <1>3 DEF derive_sample

LEMMA FailedIsSettled ==
    ASSUME NEW d, NEW error, error # ""
    PROVE  mark_failed(d, error).host = d.host /\ Settled(mark_failed(d, error))
  BY DEF mark_failed, Unset, Settled

(* Whatever is answered settles a slot, truthfully. *)
LEMMA AnswerSettles ==
    ASSUME ClockType, NEW c, c.sent \in Nat, c.sent <= steady,
           c.t1 = from_unix_nanoseconds(c.sent + Local),
           NEW a \in Answers(c), NEW d, NEW p, p.t1 = c.t1, p.sent = c.sent
    PROVE  settle(d, p, a).host = d.host /\ Settled(settle(d, p, a))
<1> DEFINE sample == derive_sample(p.t1, a.receive, a.transmit,
                                   from_unix_nanoseconds(steady + Local), steady - p.sent)
           made == [host |-> d.host, ok |-> TRUE, error |-> "", offset |-> sample.offset,
                    rtt |-> sample.rtt, bound |-> sample.bound]
<1>1. \/ \E error : error # "" /\ settle(d, p, a) = mark_failed(d, error)
      \/ /\ a.status \notin {"timeout", "unreachable", "malformed"}
         /\ classify_response(a, p.t1) = "usable" /\ sample.ok
         /\ settle(d, p, a) = made
  <2> HIDE DEF made
  <2>1. CASE a.status \in {"timeout", "unreachable", "malformed"}
    BY <2>1, Zenon DEF settle
  <2>2. CASE a.status \notin {"timeout", "unreachable", "malformed"}
    BY <2>2 DEF settle, made
  <2>. QED  BY <2>1, <2>2
<1>2. CASE \E error : error # "" /\ settle(d, p, a) = mark_failed(d, error)
  BY <1>2, FailedIsSettled
<1>3. CASE /\ a.status \notin {"timeout", "unreachable", "malformed"}
           /\ classify_response(a, p.t1) = "usable" /\ sample.ok
           /\ settle(d, p, a) = made
  <2> HIDE DEF sample, made
  <2>0. classify_response(a, p.t1) = "usable" /\ sample.ok /\ settle(d, p, a) = made
    BY <1>3
  <2>1. \/ /\ a.receive = from_unix_nanoseconds(steady + 1)
           /\ a.transmit = from_unix_nanoseconds(steady)
        \/ \E t2, t3 \in c.sent..steady :
              a.receive = from_unix_nanoseconds(t2) /\ a.transmit = from_unix_nanoseconds(t3)
    <3>1. a.stratum # 0 /\ ~(a.stratum >= 16) /\ a.origin = c.t1
      BY <2>0 DEF classify_response
    <3>2. c.t1 \in Int /\ c.t1 + 1 # c.t1
      BY ClockAssumption DEF ClockType, from_unix_nanoseconds
    <3>3. ~ a.status \in {"timeout", "unreachable", "malformed"}
      BY <1>3
    <3>4. CASE a \in [status : {"timeout", "unreachable", "malformed"}]
      BY <3>3, <3>4
    <3>5. CASE a \notin [status : {"timeout", "unreachable", "malformed"}]
      BY <3>1, <3>2, <3>5 DEF Answers, ClockType
    <3>. QED
      BY <3>4, <3>5
  <2>2. CASE /\ a.receive = from_unix_nanoseconds(steady + 1)
             /\ a.transmit = from_unix_nanoseconds(steady)
    <3>1. sample = [ok |-> FALSE]
      BY <2>2, BackwardsRejected DEF sample
    <3>2. sample.ok = FALSE
      BY <3>1
    <3>. QED  BY <3>2, <2>0
  <2>3. ASSUME NEW t2 \in c.sent..steady, NEW t3 \in c.sent..steady,
               a.receive = from_unix_nanoseconds(t2), a.transmit = from_unix_nanoseconds(t3)
        PROVE  Sampled(sample)
    <3> DEFINE s == derive_sample(from_unix_nanoseconds(c.sent + Local), from_unix_nanoseconds(t2),
                                  from_unix_nanoseconds(t3), from_unix_nanoseconds(steady + Local),
                                  steady - c.sent)
    <3>1. sample = s
      BY <2>3 DEF sample
    <3>2. s.ok => Sampled(s)
      BY SampleHonest
    <3> HIDE DEF s
    <3>. QED  BY <3>1, <3>2, <2>0
  <2>4. CASE Sampled(sample)
    <3>1. /\ made.host = d.host /\ made.ok = TRUE /\ made.error = "" /\ made.offset = sample.offset
          /\ made.rtt = sample.rtt /\ made.bound = sample.bound
      BY DEF made
    <3>. QED  BY <2>0, <2>4, <3>1 DEF Settled, Sampled
  <2>. QED  BY <2>1, <2>2, <2>3, <2>4
<1>. QED
  BY <1>1, <1>2, <1>3

(* A list of servers, each mentioned once. *)
LEMMA FirstsOf ==
    ASSUME NEW hosts \in Seq(Hosts)
    PROVE  /\ Firsts(hosts) \subseteq 1..Len(hosts) /\ IsFiniteSet(Firsts(hosts))
           /\ \A i \in Firsts(hosts) : hosts[i] \in Hosts
           /\ \A i, j \in Firsts(hosts) : hosts[i] = hosts[j] => i = j
           /\ {hosts[i] : i \in Firsts(hosts)} = {hosts[i] : i \in DOMAIN hosts}
<1>1. Len(hosts) \in Nat /\ DOMAIN hosts = 1..Len(hosts) /\ \A i \in DOMAIN hosts : hosts[i] \in Hosts
  OBVIOUS
<1>2. Firsts(hosts) \subseteq 1..Len(hosts)
  BY <1>1 DEF Firsts
<1>3. IsFiniteSet(Firsts(hosts))
  <2>1. IsFiniteSet(1..Len(hosts))
    BY <1>1, FS_Interval
  <2>. QED  BY <2>1, <1>2, FS_Subset
<1>4. ASSUME NEW i \in Firsts(hosts), NEW j \in Firsts(hosts), hosts[i] = hosts[j]
      PROVE  i = j
  <2>1. ~(i < j) /\ ~(j < i)
    BY <1>1, <1>2, <1>4 DEF Firsts
  <2>. QED  BY <2>1, <1>1, <1>2
<1>5. ASSUME NEW i \in DOMAIN hosts
      PROVE  \E j \in Firsts(hosts) : hosts[j] = hosts[i]
  <2> DEFINE S == {j \in DOMAIN hosts : hosts[j] = hosts[i]}
  <2>1. S \in SUBSET Nat /\ S # {}
    BY <1>1
  <2> HIDE DEF S
  <2>2. PICK j \in S : \A k \in S : j <= k
    BY <2>1, Least
  <2>3. j \in DOMAIN hosts /\ hosts[j] = hosts[i]
    BY <2>2 DEF S
  <2>4. \A k \in 1..(j - 1) : hosts[k] # hosts[j]
    BY <2>2, <2>3, <1>1 DEF S
  <2>. QED  BY <2>3, <2>4 DEF Firsts
<1>6. {hosts[i] : i \in Firsts(hosts)} = {hosts[i] : i \in DOMAIN hosts}
  BY <1>1, <1>2, <1>5
<1>. QED
  BY <1>1, <1>2, <1>3, <1>4, <1>6

(* The best server of a round is one that answered, none faster. *)
LEMMA BestServer ==
    ASSUME NEW servers, NEW D \in SUBSET Nat, DOMAIN servers = D,
           \A i \in D : servers[i].ok => servers[i].rtt \in Nat /\ servers[i].bound \in Nat
    PROVE  LET good == {i \in DOMAIN servers : servers[i].ok}
           IN  IF good = {} THEN best_server(servers) = 0
               ELSE /\ best_server(servers) \in good
                    /\ \A j \in good : servers[best_server(servers)].rtt <= servers[j].rtt
<1> DEFINE good == {i \in DOMAIN servers : servers[i].ok}
           better(i, j) == \/ servers[i].rtt < servers[j].rtt
                           \/ servers[i].rtt = servers[j].rtt /\ servers[i].bound < servers[j].bound
           unbeaten == {i \in good : ~ \E j \in good : better(j, i)}
           rtts == {servers[i].rtt : i \in good}
<1>1. CASE good = {}
  BY <1>1, SMTT(30) DEF best_server
<1>2. CASE good # {}
  <2>1. rtts \in SUBSET Nat /\ rtts # {}
    BY <1>2
  <2>2. PICK r \in rtts : \A q \in rtts : r <= q
    <3> HIDE DEF rtts
    <3>. QED  BY <2>1, Least
  <2> DEFINE bounds == {servers[i].bound : i \in {k \in good : servers[k].rtt = r}}
  <2>3. bounds \in SUBSET Nat /\ bounds # {}
    BY <2>2
  <2>4. PICK b \in bounds : \A q \in bounds : b <= q
    <3> HIDE DEF bounds
    <3>. QED  BY <2>3, Least
  <2>5. PICK i \in good : servers[i].rtt = r /\ servers[i].bound = b
    BY <2>4
  <2>6. i \in unbeaten
    <3>1. ASSUME NEW j \in good, better(j, i) PROVE FALSE
      <4>1. servers[j].rtt \in Nat /\ r <= servers[j].rtt
        BY <2>2
      <4>2. servers[j].rtt = r /\ servers[j].bound < b
        BY <4>1, <2>5, <3>1, <2>1, <2>2
      <4>3. servers[j].bound \in bounds
        BY <4>2
      <4>4. b <= servers[j].bound /\ servers[j].bound \in Nat /\ b \in Nat
        BY <2>3, <2>4, <4>3
      <4>. QED  BY <4>2, <4>4
    <3>. QED  BY <3>1, <2>5
  <2>7. unbeaten \in SUBSET Nat /\ unbeaten # {}
    BY <2>6
  <2>8. Min(unbeaten) \in unbeaten
    <3> HIDE DEF unbeaten
    <3>. QED  BY <2>7, MinIsLeast
  <2>9. best_server(servers) = Min(unbeaten)
    BY <1>2 DEF best_server
  <2>10. \A j \in good : servers[Min(unbeaten)].rtt <= servers[j].rtt
    <3>1. PICK m \in unbeaten : m = Min(unbeaten)
      BY <2>8
    <3>2. ASSUME NEW j \in good PROVE servers[m].rtt <= servers[j].rtt
      <4>1. ~ (servers[j].rtt < servers[m].rtt) /\ m \in good
        BY <3>1
      <4>2. \A n \in good : servers[n].rtt \in Nat
        OBVIOUS
      <4>3. servers[j].rtt \in Nat /\ servers[m].rtt \in Nat
        BY <4>1, <4>2, <3>2
      <4> HIDE DEF good
      <4>. QED  BY <4>1, <4>3
    <3> HIDE DEF unbeaten
    <3>. QED  BY <3>1, <3>2
  <2>. QED  BY <1>2, <2>8, <2>9, <2>10
<1>. QED
  BY <1>1, <1>2
-----------------------------------------------------------------------------
(* The initial states and the steps. *)

LEMMA ClockStart == ClockInit => CInv
<1>1. SUFFICES ASSUME ClockInit PROVE CInv
  OBVIOUS
<1>2. MaxSteady \in Nat
  BY ClockAssumption
<1>3. <<>> \in Seq(Hosts)
  OBVIOUS
<1>4. round = [in_flight |-> FALSE, token |-> 0, hosts |-> <<>>, remaining |-> 0, issuing |-> FALSE]
  BY <1>1 DEF ClockInit
<1>5. ClockType
  BY <1>1, <1>2, <1>3, <1>4 DEF ClockInit, ClockType, RoundType, KissType, NoKiss
<1>6. RoundInv /\ CallsInv /\ KissInv /\ OutcomeInv
  <2>1. round.in_flight = FALSE /\ round.token = 0 /\ calls = {} /\ kisses = {} /\ outcome.count = 0
    BY <1>1, <1>4 DEF ClockInit
  <2>2. RoundInv
    BY <2>1, Zenon DEF RoundInv
  <2>3. CallsInv /\ KissInv
    BY <2>1, Zenon DEF CallsInv, KissInv, KissesKept
  <2>4. OutcomeInv
    <3>1. (IF round.in_flight THEN 1 ELSE 0) = 0
      BY <2>1, Zenon
    <3>2. outcome.count = 0 - 0 /\ ~ (outcome.count > 0)
      BY <2>1
    <3>3. outcome.count = round.token - (IF round.in_flight THEN 1 ELSE 0)
      BY <2>1, <3>1, <3>2, Zenon
    <3>. QED  BY <3>2, <3>3, Zenon DEF OutcomeInv
  <2>. QED
    BY <2>2, <2>3, <2>4
<1>. QED
  BY <1>5, <1>6 DEF CInv

LEMMA HostListType == \A hosts \in HostLists : hosts \in Seq(Hosts)
  BY ClockAssumption

LEMMA SkippedHasReason ==
    ASSUME NEW host
    PROVE  skip_reason(host) = "" <=> ~ kiss[host].blocked /\ ~ (steady < kiss[host].until)
  BY DEF skip_reason

LEMMA ProbeKeeps ==
    ASSUME CInv, NEW hosts \in HostLists, probe(hosts)
    PROVE  CInv'
<1> DEFINE S == {i \in Firsts(hosts) : skip_reason(hosts[i]) = ""}
<1>1. ClockType /\ CallsInv /\ KissInv /\ OutcomeInv /\ round \in RoundType /\ ~ round.in_flight
  BY DEF CInv, ClockType, probe
<1>2. /\ round' = [in_flight |-> TRUE, token |-> round.token + 1, hosts |-> hosts,
                   remaining |-> Cardinality(S), issuing |-> TRUE]
      /\ details' = [i \in Firsts(hosts) |->
                       IF i \in S THEN Entry(hosts[i])
                       ELSE mark_failed(Entry(hosts[i]), skip_reason(hosts[i]))]
      /\ pending' = [i \in Firsts(hosts) |-> [t1 |-> 0, sent |-> 0, settled |-> TRUE]]
      /\ slots' = S
      /\ UNCHANGED <<steady, kiss, calls, outcome, kisses>>
  BY DEF probe
<1>3. hosts \in Seq(Hosts) /\ IsFiniteSet(Firsts(hosts)) /\ \A i \in Firsts(hosts) : hosts[i] \in Hosts
  BY HostListType, FirstsOf
<1>4. S \subseteq Firsts(hosts)
  OBVIOUS
<1>5. \A i \in Firsts(hosts) : i \in S <=> skip_reason(hosts[i]) = ""
  OBVIOUS
<1> HIDE DEF S
<1>6. IsFiniteSet(S) /\ Cardinality(S) \in Nat
  BY <1>3, <1>4, FS_Subset, FS_CardinalityType
<1>7. /\ round'.in_flight = TRUE /\ round'.token = round.token + 1 /\ round'.hosts = hosts
      /\ round'.remaining = Cardinality(S) /\ round'.issuing = TRUE
  BY <1>2
<1>8. round.token \in Nat
  BY <1>1 DEF RoundType
<1>9. ClockType'
  BY <1>1, <1>2, <1>3, <1>6, <1>8 DEF ClockType, RoundType
<1>10. Waiting(pending') = {} /\ Open(slots', pending') = S
  BY <1>2 DEF Waiting, Open
<1>11. RoundInv'
  <2>1. \A i \in Firsts(hosts) : details'[i].host = hosts[i] /\ (i \in S \/ Settled(details'[i]))
    <3>1. SUFFICES ASSUME NEW i \in Firsts(hosts)
                   PROVE  details'[i].host = hosts[i] /\ (i \in S \/ Settled(details'[i]))
      OBVIOUS
    <3>2. Entry(hosts[i]).host = hosts[i]
      BY DEF Entry, Unset
    <3>3. CASE i \in S
      BY <1>2, <3>2, <3>3
    <3>4. CASE i \notin S
      <4>1. details'[i] = mark_failed(Entry(hosts[i]), skip_reason(hosts[i]))
        BY <1>2, <3>4
      <4>2. skip_reason(hosts[i]) # ""
        BY <1>5, <3>4
      <4>3. /\ mark_failed(Entry(hosts[i]), skip_reason(hosts[i])).host = Entry(hosts[i]).host
            /\ Settled(mark_failed(Entry(hosts[i]), skip_reason(hosts[i])))
        BY <4>2, FailedIsSettled
      <4>. QED  BY <4>1, <4>3, <3>2, Zenon
    <3>. QED  BY <3>3, <3>4
  <2>2. pending' \in [Firsts(hosts) -> PendingType] /\ \A i \in Firsts(hosts) : pending'[i].settled
    BY <1>2 DEF PendingType
  <2>3. DOMAIN details' = Firsts(hosts)
    BY <1>2
  <2>4. \A i \in S : (skip_reason(hosts[i]) = "")' /\ ~ kiss'[hosts[i]].blocked
    BY <1>2, <1>4, <1>5, SkippedHasReason DEF skip_reason
  <2>. QED
    BY <1>2, <1>4, <1>7, <1>10, <2>1, <2>2, <2>3, <2>4 DEF RoundInv, Entries
<1>12. CallsInv'
  <2>1. \A c \in calls : c.token \in Nat /\ c.token <= round.token
    BY <1>1 DEF CallsInv, CallType
  <2>2. \A c \in calls : c.token # round'.token /\ c.token <= round'.token
    BY <1>7, <1>8, <2>1
  <2>. QED
    BY <1>1, <1>2, <1>10, <2>2 DEF CallsInv
<1>13. KissInv'
  <2>1. \A k \in kisses : k.token <= round.token + 1
    BY <1>1, <1>8 DEF KissInv
  <2>. QED
    BY <1>1, <1>2, <1>7, <2>1 DEF KissInv, KissesKept, Keeps
<1>14. OutcomeInv'
  <2>1. outcome.count = round.token
    BY <1>1, <1>8 DEF OutcomeInv
  <2>2. outcome'.count = round'.token - (IF round'.in_flight THEN 1 ELSE 0)
    BY <1>2, <1>7, <1>8, <2>1
  <2>. QED
    BY <1>1, <1>2, <2>2 DEF OutcomeInv
<1>. QED
  BY <1>9, <1>11, <1>12, <1>13, <1>14 DEF CInv

LEMMA SteadyKeeps ==
    ASSUME CInv, SteadyPasses
    PROVE  CInv'
<1>1. ClockType /\ RoundInv /\ CallsInv /\ KissInv /\ OutcomeInv
  BY DEF CInv
<1>2. /\ steady < MaxSteady /\ steady' = steady + 1
      /\ UNCHANGED <<round, details, pending, slots, kiss, calls, outcome, kisses>>
      /\ round.in_flight => ~ round.issuing
  BY DEF SteadyPasses
<1>3. steady \in Nat /\ MaxSteady \in Nat /\ steady' \in Nat /\ steady' <= MaxSteady
  BY <1>1, <1>2, ClockAssumption DEF ClockType
<1>4. ClockType'
  BY <1>1, <1>2, <1>3 DEF ClockType
<1>5. RoundInv'
  BY <1>1, <1>2 DEF RoundInv, Entries, Open, Waiting
<1>6. CallsInv'
  <2>1. \A c \in calls : c.sent <= steady'
    BY <1>1, <1>2, <1>3 DEF CallsInv, CallType
  <2>. QED
    BY <1>1, <1>2, <2>1 DEF CallsInv, OfRound, Waiting
<1>7. KissInv'
  BY <1>1, <1>2, <1>3 DEF KissInv, Keeps, KissesKept
<1>8. OutcomeInv'
  BY <1>1, <1>2 DEF OutcomeInv
<1>. QED
  BY <1>4, <1>5, <1>6, <1>7, <1>8 DEF CInv

LEMMA OpenIsFinite ==
    ASSUME RoundInv, round.in_flight, round \in RoundType
    PROVE  /\ IsFiniteSet(Open(slots, pending)) /\ Cardinality(Open(slots, pending)) \in Nat
           /\ Open(slots, pending) \subseteq Firsts(round.hosts)
<1>1. Open(slots, pending) \subseteq Firsts(round.hosts)
  BY DEF RoundInv, Open, Waiting
<1>2. IsFiniteSet(Firsts(round.hosts))
  <2>1. round.hosts \in Seq(Hosts)
    BY DEF RoundType
  <2>. QED  BY <2>1, FirstsOf
<1>. QED
  BY <1>1, <1>2, FS_Subset, FS_CardinalityType

LEMMA ExchangeKeeps ==
    ASSUME CInv, async_exchange
    PROVE  CInv'
<1>1. ClockType /\ RoundInv /\ CallsInv /\ KissInv /\ OutcomeInv /\ round \in RoundType
  BY DEF CInv, ClockType
<1> DEFINE t1 == from_unix_nanoseconds(steady + Local)
           p(s) == [t1 |-> t1, sent |-> steady, settled |-> FALSE]
           call(s) == [slot |-> s, token |-> round.token, host |-> details[s].host,
                       t1 |-> t1, sent |-> steady, left |-> IF s = 1 THEN MaxCalls ELSE 1]
<1>2. PICK slot \in slots :
        /\ pending' = [pending EXCEPT ![slot] = p(slot)]
        /\ calls' = calls \cup {call(slot)}
        /\ slots' = slots \ {slot}
  BY DEF async_exchange
<1>3. /\ round.in_flight /\ round.issuing
      /\ UNCHANGED <<steady, round, details, kiss, outcome, kisses>>
  BY DEF async_exchange
<1> DEFINE hosts == round.hosts
<1>0. PICK new : new = call(slot)
  OBVIOUS
<1>4. /\ slot \in Firsts(hosts) /\ details[slot].host = hosts[slot] /\ pending[slot].settled
      /\ skip_reason(hosts[slot]) = "" /\ pending \in [Firsts(hosts) -> PendingType]
      /\ slots \subseteq Firsts(hosts)
  BY <1>1, <1>2, <1>3 DEF RoundInv, Entries
<1>5. steady \in Nat /\ Local \in Int /\ Era \in Nat /\ Era > 2 /\ t1 \in Int /\ round.token \in Nat
  BY <1>1, ClockAssumption DEF ClockType, RoundType, from_unix_nanoseconds
<1>6. /\ new.slot = slot /\ new.token = round.token /\ new.host = hosts[slot] /\ new.t1 = t1
      /\ new.sent = steady
  BY <1>0, <1>4
<1>7. /\ pending'[slot].t1 = t1 /\ pending'[slot].sent = steady /\ pending'[slot].settled = FALSE
      /\ \A i \in Firsts(hosts) : i # slot => pending'[i] = pending[i]
      /\ pending' \in [Firsts(hosts) -> PendingType]
  BY <1>2, <1>4, <1>5 DEF PendingType
<1> HIDE DEF t1
<1>8. /\ Waiting(pending') = Waiting(pending) \cup {slot}
      /\ Open(slots', pending') = Open(slots, pending)
  BY <1>2, <1>4, <1>7 DEF Waiting, Open
<1>9. calls' = calls \cup {new}
  BY <1>2, <1>0
<1>10. ClockType'
  BY <1>1, <1>3 DEF ClockType
<1>11. RoundInv'
  <2>1. \A i \in slots' : pending'[i].settled /\ (skip_reason(hosts[i]) = "")'
    BY <1>1, <1>2, <1>3, <1>4, <1>7 DEF RoundInv, skip_reason
  <2>. QED
    BY <1>1, <1>2, <1>3, <1>4, <1>7, <1>8, <2>1 DEF RoundInv, Entries
<1>12. CallsInv'
  <2>1. \A c \in calls : /\ c.token <= round.token /\ c.sent <= steady
                         /\ c.t1 = from_unix_nanoseconds(c.sent + Local)
    BY <1>1 DEF CallsInv
  <2>2. ASSUME NEW c \in calls, c.token = round.token
        PROVE  OfRound(c)'
    <3>1. OfRound(c)
      BY <1>1, <1>3, <2>2 DEF CallsInv
    <3>2. c.slot # slot
      BY <3>1, <1>2 DEF OfRound
    <3>. QED
      BY <3>1, <3>2, <1>2, <1>3, <1>7 DEF OfRound
  <2>3. OfRound(new)'
    BY <1>2, <1>3, <1>4, <1>6, <1>7 DEF OfRound
  <2>4. \A i \in Waiting(pending') : \E c \in calls' : c.token = round.token /\ c.slot = i
    BY <1>1, <1>3, <1>6, <1>8, <1>9 DEF CallsInv
  <2>5. /\ new.t1 = from_unix_nanoseconds(new.sent + Local) /\ new.sent <= steady
        /\ new.token <= round.token
    BY <1>5, <1>6 DEF t1
  <2>6. new \in CallType
    <3>1. hosts \in Seq(Hosts)
      BY <1>1 DEF RoundType
    <3>2. Firsts(hosts) \subseteq 1..Len(hosts) /\ \A i \in Firsts(hosts) : hosts[i] \in Hosts
      BY <3>1, FirstsOf
    <3>3. slot \in Nat /\ hosts[slot] \in Hosts
      <4>1. Len(hosts) \in Nat
        BY <3>1
      <4> HIDE DEF hosts
      <4>2. slot \in 1..Len(hosts) /\ hosts[slot] \in Hosts
        BY <3>2, <1>4
      <4>. QED  BY <4>1, <4>2
    <3>4. PICK left \in Int : left = IF slot = 1 THEN MaxCalls ELSE 1
      BY ClockAssumption
    <3>5. new = [slot |-> slot, token |-> round.token, host |-> hosts[slot], t1 |-> t1,
                 sent |-> steady, left |-> left]
      BY <1>0, <1>4, <3>4
    <3> HIDE DEF hosts
    <3>. QED
      BY <3>3, <3>5, <1>5 DEF CallType
  <2>7. calls' \subseteq CallType
    BY <1>1, <1>9, <2>6 DEF CallsInv
  <2>. QED
    BY <1>3, <1>9, <2>7, <2>1, <2>2, <2>3, <2>4, <2>5 DEF CallsInv
<1>13. KissInv'
  <2>1. ~ kiss[hosts[slot]].blocked /\ ~ (steady < kiss[hosts[slot]].until)
    BY <1>4, SkippedHasReason
  <2>2. ASSUME NEW k \in kisses, new.host = k.host, new.token > k.token
        PROVE  k.code = "RATE" /\ new.sent >= k.at + Backoff
    <3>1. Keeps(k, kiss[hosts[slot]]) /\ k.at \in Nat
      BY <1>1, <1>6, <2>2 DEF KissInv
    <3>2. kiss[hosts[slot]].until \in Nat
      <4>1. hosts[slot] \in Hosts
        <5>1. hosts \in Seq(Hosts)
          BY <1>1 DEF RoundType
        <5>. QED  BY <5>1, <1>4, FirstsOf
      <4>. QED  BY <4>1, <1>1 DEF ClockType, KissType
    <3>3. Backoff \in Nat
      BY ClockAssumption
    <3>. QED
      BY <3>1, <3>2, <3>3, <2>1, <1>5, <1>6 DEF Keeps
  <2>3. KissesKept'
    BY <1>1, <1>3, <1>9, <2>2 DEF KissInv, KissesKept
  <2>. QED
    BY <1>1, <1>3, <2>3 DEF KissInv, Keeps
<1>14. OutcomeInv'
  BY <1>1, <1>3 DEF OutcomeInv
<1>. QED
  BY <1>10, <1>11, <1>12, <1>13, <1>14 DEF CInv

(* The end of a round: every slot is settled, and its entries go to the handler. *)
LEMMA RoundEnds ==
    ASSUME ClockType, OutcomeInv, NEW r \in RoundType, NEW ds, round.in_flight,
           r.in_flight, r.token = round.token, Entries(ds, r.hosts),
           \A i \in Firsts(r.hosts) : Settled(ds[i]), finish_round(r, ds)
    PROVE  round' \in RoundType /\ ~ round'.in_flight /\ round'.token = round.token /\ OutcomeInv'
<1>1. round' = [r EXCEPT !.in_flight = FALSE]
  BY DEF finish_round
<1>2. round' \in RoundType /\ round'.in_flight = FALSE /\ round'.token = round.token
  BY <1>1 DEF RoundType
<1>3. /\ outcome'.count = outcome.count + 1 /\ outcome'.token = r.token /\ outcome'.hosts = r.hosts
      /\ outcome'.servers = ds /\ outcome'.best = best_server(ds)
      /\ outcome'.offset = IF best_server(ds) = 0 THEN NoValue ELSE ds[best_server(ds)].offset
      /\ outcome'.bound = IF best_server(ds) = 0 THEN NoValue ELSE ds[best_server(ds)].bound
  BY DEF finish_round
<1>4. outcome.count = round.token - 1 /\ round.token \in Nat /\ r.hosts \in Seq(Hosts)
  BY DEF OutcomeInv, ClockType, RoundType
<1>. QED
  BY <1>2, <1>3, <1>4 DEF OutcomeInv

LEMMA IssuedKeeps ==
    ASSUME CInv, Issued
    PROVE  CInv'
<1>1. ClockType /\ RoundInv /\ CallsInv /\ KissInv /\ OutcomeInv /\ round \in RoundType
  BY DEF CInv, ClockType
<1>2. /\ round.in_flight /\ round.issuing /\ slots = {}
      /\ UNCHANGED <<steady, slots, kiss, calls, kisses>>
  BY DEF Issued
<1>3. [round EXCEPT !.issuing = FALSE] \in RoundType
  BY <1>1 DEF RoundType
<1>4. CASE /\ round.remaining = 0
           /\ finish_round([round EXCEPT !.issuing = FALSE], details)
  <2> DEFINE r == [round EXCEPT !.issuing = FALSE]
  <2>1. r.in_flight /\ r.token = round.token /\ r.hosts = round.hosts /\ r \in RoundType
    BY <1>1, <1>2, <1>3 DEF RoundType
  <2>2. Open(slots, pending) = {}
    BY <1>1, <1>2, <1>4, OpenIsFinite, FS_EmptySet DEF RoundInv
  <2>3. Entries(details, r.hosts) /\ \A i \in Firsts(r.hosts) : Settled(details[i])
    BY <1>1, <1>2, <2>1, <2>2 DEF RoundInv
  <2>4. finish_round(r, details)
    BY <1>4
  <2> HIDE DEF r
  <2>5. round' \in RoundType /\ ~ round'.in_flight /\ round'.token = round.token /\ OutcomeInv'
    BY <1>1, <1>2, <2>1, <2>3, <2>4, RoundEnds
  <2>6. ClockType' /\ RoundInv'
    BY <1>1, <1>2, <2>5 DEF ClockType, RoundInv
  <2>7. CallsInv'
    BY <1>1, <1>2, <2>5 DEF CallsInv
  <2>8. KissInv'
    BY <1>1, <1>2, <2>5 DEF KissInv, Keeps, KissesKept
  <2>. QED
    BY <2>5, <2>6, <2>7, <2>8 DEF CInv
<1>5. CASE round' = [round EXCEPT !.issuing = FALSE] /\ UNCHANGED <<details, pending, outcome>>
  <2>1. /\ round'.in_flight = round.in_flight /\ round'.token = round.token
        /\ round'.hosts = round.hosts /\ round'.remaining = round.remaining /\ round' \in RoundType
    BY <1>1, <1>3, <1>5 DEF RoundType
  <2>2. ClockType'
    BY <1>1, <1>2, <2>1 DEF ClockType
  <2>3. RoundInv'
    BY <1>1, <1>2, <1>5, <2>1 DEF RoundInv, Entries, Open, Waiting, skip_reason
  <2>4. CallsInv'
    BY <1>1, <1>2, <1>5, <2>1 DEF CallsInv, OfRound, Waiting
  <2>5. KissInv'
    BY <1>1, <1>2, <2>1 DEF KissInv, Keeps, KissesKept
  <2>6. OutcomeInv'
    BY <1>1, <1>5, <2>1 DEF OutcomeInv
  <2>. QED
    BY <2>2, <2>3, <2>4, <2>5, <2>6 DEF CInv
<1>. QED
  BY <1>4, <1>5 DEF Issued

(* A callback takes its request, or one repetition of it. *)
Taken(c) == calls' = (calls \ {c}) \cup (IF c.left = 1 THEN {} ELSE {[c EXCEPT !.left = @ - 1]})

LEMMA CallsTaken ==
    ASSUME calls \subseteq CallType, NEW c \in calls, Taken(c)
    PROVE  /\ calls' \subseteq CallType /\ calls \ {c} \subseteq calls'
           /\ \A d \in calls' : \E e \in calls :
                 /\ d.slot = e.slot /\ d.token = e.token /\ d.host = e.host
                 /\ d.t1 = e.t1 /\ d.sent = e.sent
<1> DEFINE less == [c EXCEPT !.left = @ - 1]
<1>1. c \in CallType
  OBVIOUS
<1>2. /\ less \in CallType /\ less.slot = c.slot /\ less.token = c.token /\ less.host = c.host
      /\ less.t1 = c.t1 /\ less.sent = c.sent
  BY <1>1 DEF CallType
<1> HIDE DEF less
<1>3. calls' = (calls \ {c}) \cup (IF c.left = 1 THEN {} ELSE {less})
  BY DEF Taken, less
<1>. QED
  BY <1>2, <1>3

(* A callback that is dropped: of another round, or of a slot that is settled. *)
LEMMA DroppedKeeps ==
    ASSUME CInv, NEW c \in calls, ~ accepted(c), Taken(c),
           UNCHANGED <<steady, slots, round, details, pending, kiss, outcome, kisses>>
    PROVE  CInv'
<1>1. ClockType /\ RoundInv /\ CallsInv /\ KissInv /\ OutcomeInv /\ round \in RoundType
  BY DEF CInv, ClockType
<1>2. /\ calls' \subseteq CallType /\ calls \ {c} \subseteq calls'
      /\ \A d \in calls' : \E e \in calls :
            /\ d.slot = e.slot /\ d.token = e.token /\ d.host = e.host
            /\ d.t1 = e.t1 /\ d.sent = e.sent
  BY <1>1, CallsTaken DEF CallsInv
<1>3. ClockType' /\ OutcomeInv'
  BY <1>1 DEF ClockType, OutcomeInv
<1>4. RoundInv'
  BY <1>1 DEF RoundInv, Entries, Open, Waiting, skip_reason
<1>5. CallsInv'
  <2>1. \A d \in calls' : /\ d.token <= round.token /\ d.sent <= steady
                          /\ d.t1 = from_unix_nanoseconds(d.sent + Local)
    BY <1>1, <1>2 DEF CallsInv
  <2>2. \A d \in calls' : round.in_flight /\ d.token = round.token => OfRound(d)
    BY <1>1, <1>2 DEF CallsInv, OfRound
  <2>3. ASSUME round.in_flight, NEW i \in Waiting(pending)
        PROVE  \E d \in calls' : d.token = round.token /\ d.slot = i
    <3>1. round.remaining # 0
      <4>1. i \in Open(slots, pending)
        BY <2>3 DEF Open
      <4>. QED  BY <4>1, <1>1, <2>3, OpenIsFinite, FS_EmptySet DEF RoundInv
    <3>2. PICK d \in calls : d.token = round.token /\ d.slot = i
      BY <1>1, <2>3 DEF CallsInv
    <3>3. d # c
      BY <3>1, <3>2, <2>3 DEF accepted, Waiting
    <3>. QED  BY <3>2, <3>3, <1>2
  <2>. QED
    BY <1>2, <2>1, <2>2, <2>3 DEF CallsInv, OfRound, Waiting
<1>6. KissInv'
  BY <1>1, <1>2 DEF KissInv, Keeps, KissesKept
<1>. QED
  BY <1>3, <1>4, <1>5, <1>6 DEF CInv

Code(a) == IF a.status = "received" /\ a.stratum = 0 THEN a.code ELSE "none"

KissesAfter(host, token, code) ==
    kisses \cup (IF code \in {"RATE", "DENY", "RSTR"}
                 THEN {[host |-> host, token |-> token, code |-> code, at |-> steady]} ELSE {})

(* A kiss of a server that was not blocked lifts nothing. *)
LEMMA KissesGrow ==
    ASSUME ClockType, KissInv, NEW host \in Hosts, ~ kiss[host].blocked, NEW code,
           kiss' = note_kiss(kiss, host, code), kisses' = KissesAfter(host, round.token, code),
           steady' = steady, \A d \in calls : d.token <= round.token,
           calls \subseteq CallType, calls' \subseteq CallType, round'.token = round.token,
           \A d \in calls' : \E e \in calls :
                 d.token = e.token /\ d.host = e.host /\ d.sent = e.sent
    PROVE  /\ kiss' \in [Hosts -> KissType] /\ KissInv'
           /\ \A h \in Hosts : h # host => kiss'[h] = kiss[h]
<1>1. steady \in Nat /\ Backoff \in Nat /\ kiss \in [Hosts -> KissType] /\ round.token \in Nat
  BY ClockAssumption DEF ClockType, RoundType
<1> DEFINE entry == CASE code = "RATE" -> [blocked |-> FALSE, until |-> steady + Backoff]
                      [] code \in {"DENY", "RSTR"} -> [blocked |-> TRUE, until |-> 0]
                      [] OTHER -> kiss[host]
<1>2. kiss' = [kiss EXCEPT ![host] = entry]
  BY <1>1 DEF note_kiss
<1>3. entry \in KissType
  BY <1>1 DEF KissType
<1>4. /\ code = "RATE" => entry.until = steady + Backoff
      /\ code \in {"DENY", "RSTR"} => entry.blocked
      /\ code \notin {"RATE", "DENY", "RSTR"} => entry = kiss[host]
  OBVIOUS
<1> HIDE DEF entry
<1>5. kiss' \in [Hosts -> KissType] /\ kiss'[host] = entry /\ \A h \in Hosts : h # host => kiss'[h] = kiss[h]
  BY <1>1, <1>2, <1>3
<1>6. \A k \in kisses : Keeps(k, kiss'[k.host])
  <2>1. SUFFICES ASSUME NEW k \in kisses, k.host = host
                 PROVE  Keeps(k, entry)
    BY <1>5 DEF KissInv
  <2>2. k.code = "RATE" /\ kiss[host].until >= k.at + Backoff /\ k.at \in Nat /\ k.at <= steady
    BY <2>1 DEF KissInv, Keeps
  <2>3. steady + Backoff >= k.at + Backoff
    BY <2>2, <1>1
  <2>. QED
    BY <2>2, <2>3, <1>4 DEF Keeps
<1>7. ASSUME NEW k \in kisses' \ kisses
      PROVE  /\ k.host = host /\ k.token = round.token /\ k.at = steady /\ Keeps(k, kiss'[k.host])
  <2>1. code \in {"RATE", "DENY", "RSTR"} /\ k = [host |-> host, token |-> round.token, code |-> code, at |-> steady]
    BY <1>7 DEF KissesAfter
  <2>2. steady + Backoff >= steady + Backoff
    BY <1>1
  <2>. QED
    BY <2>1, <2>2, <1>4, <1>5 DEF Keeps
<1>8. KissesKept'
  <2>1. SUFFICES ASSUME NEW k \in kisses', NEW d \in calls', d.host = k.host, d.token > k.token
                 PROVE  k.code = "RATE" /\ d.sent >= k.at + Backoff
    BY DEF KissesKept
  <2>2. PICK e \in calls : d.token = e.token /\ d.host = e.host /\ d.sent = e.sent
    OBVIOUS
  <2>3. k \in kisses
    BY <2>1, <2>2, <1>1, <1>7 DEF CallType
  <2>. QED
    BY <2>1, <2>2, <2>3 DEF KissInv, KissesKept
<1>9. \A k \in kisses' : /\ k.host \in Hosts /\ k.token \in Nat /\ k.token <= round.token
                         /\ k.at \in Nat /\ k.at <= steady
  BY <1>1, <1>7 DEF KissInv
<1>. QED
  BY <1>5, <1>6, <1>7, <1>8, <1>9 DEF KissInv

LEMMA AcceptedKeeps ==
    ASSUME CInv, NEW c \in calls, accepted(c), NEW a \in Answers(c), handle_exchange(c, a),
           Taken(c), UNCHANGED <<steady, slots>>
    PROVE  CInv'
<1>1. ClockType /\ RoundInv /\ CallsInv /\ KissInv /\ OutcomeInv /\ round \in RoundType
  BY DEF CInv, ClockType
<1> DEFINE hosts == round.hosts
           open == Open(slots, pending)
<1>2. /\ round.in_flight /\ c.token = round.token /\ round.remaining \in Nat /\ round.remaining # 0
      /\ ~ pending[c.slot].settled
  BY <1>1 DEF accepted, RoundType
<1>3. OfRound(c) /\ c \in CallType /\ c.sent \in Nat /\ c.sent <= steady
      /\ c.t1 = from_unix_nanoseconds(c.sent + Local)
  BY <1>1, <1>2 DEF CallsInv, CallType
<1>4. PICK i \in Firsts(hosts) : i = c.slot
  BY <1>3 DEF OfRound
<1>5. /\ i \notin slots /\ pending[i].t1 = c.t1 /\ pending[i].sent = c.sent /\ ~ pending[i].settled
      /\ pending \in [Firsts(hosts) -> PendingType] /\ Entries(details, hosts)
  BY <1>1, <1>2, <1>3, <1>4 DEF OfRound, RoundInv
<1>6. PICK host \in Hosts : host = hosts[i] /\ host = details[i].host
  <2>1. hosts \in Seq(Hosts)
    BY <1>1 DEF RoundType
  <2>2. hosts[i] \in Hosts
    BY <2>1, FirstsOf
  <2>. QED  BY <2>2, <1>5 DEF Entries
<1>7. \A j \in Firsts(hosts) : j # i => hosts[j] # host /\ hosts[j] \in Hosts
  <2>1. hosts \in Seq(Hosts)
    BY <1>1 DEF RoundType
  <2>. QED  BY <2>1, <1>6, FirstsOf
<1>8. i \in open /\ ~ kiss[host].blocked
  BY <1>1, <1>2, <1>5, <1>6 DEF Open, Waiting, RoundInv
<1>9. IsFiniteSet(open) /\ Cardinality(open) = round.remaining /\ open \subseteq Firsts(hosts)
  BY <1>1, <1>2, OpenIsFinite DEF RoundInv
<1>10. Cardinality(open \ {i}) = round.remaining - 1 /\ IsFiniteSet(open \ {i})
  BY <1>8, <1>9, FS_RemoveElement
<1> DEFINE ds == [details EXCEPT ![i] = settle(details[i], pending[i], a)]
           r == [round EXCEPT !.remaining = @ - 1]
           code == Code(a)
<1>11. /\ kiss' = note_kiss(kiss, host, code) /\ kisses' = KissesAfter(host, round.token, code)
       /\ IF r.remaining = 0 /\ ~ r.issuing THEN finish_round(r, ds)
          ELSE /\ round' = r /\ details' = ds
               /\ pending' = [pending EXCEPT ![i].settled = TRUE]
               /\ UNCHANGED outcome
  BY <1>2, <1>4, <1>6, Zenon DEF handle_exchange, Code, KissesAfter
<1>12. settle(details[i], pending[i], a).host = host /\ Settled(settle(details[i], pending[i], a))
  BY <1>1, <1>3, <1>5, <1>6, AnswerSettles
<1>13. /\ Entries(ds, hosts) /\ Settled(ds[i])
       /\ \A j \in Firsts(hosts) : j # i => ds[j] = details[j]
  BY <1>5, <1>6, <1>12 DEF Entries
<1>14. /\ r \in RoundType /\ r.in_flight /\ r.token = round.token /\ r.hosts = hosts
       /\ r.remaining = round.remaining - 1 /\ r.issuing = round.issuing
  BY <1>1, <1>2 DEF RoundType
<1>15. /\ calls' \subseteq CallType /\ calls \ {c} \subseteq calls'
       /\ \A d \in calls' : \E e \in calls :
             /\ d.slot = e.slot /\ d.token = e.token /\ d.host = e.host
             /\ d.t1 = e.t1 /\ d.sent = e.sent
  BY <1>1, CallsTaken DEF CallsInv
<1> HIDE DEF ds, r, code, open
<1>16. \A j \in Firsts(hosts) : j \in open \ {i} \/ Settled(ds[j])
  <2>1. \A j \in Firsts(hosts) : j \in open \/ Settled(details[j])
    BY <1>1, <1>2 DEF RoundInv, open
  <2>. QED  BY <2>1, <1>13
<1>17. round'.token = round.token => /\ kiss' \in [Hosts -> KissType] /\ KissInv'
                                     /\ \A h \in Hosts : h # host => kiss'[h] = kiss[h]
  <2>1. SUFFICES ASSUME round'.token = round.token
                 PROVE  /\ kiss' \in [Hosts -> KissType] /\ KissInv'
                        /\ \A h \in Hosts : h # host => kiss'[h] = kiss[h]
    OBVIOUS
  <2>2. calls \subseteq CallType /\ \A d \in calls : d.token <= round.token
    BY <1>1 DEF CallsInv
  <2>. QED
    BY <2>1, <2>2, <1>1, <1>8, <1>11, <1>15, KissesGrow
<1>18. \A d \in calls' : /\ d.token <= round.token /\ d.sent <= steady
                         /\ d.t1 = from_unix_nanoseconds(d.sent + Local)
  BY <1>1, <1>15 DEF CallsInv
<1>19. CASE r.remaining = 0 /\ ~ r.issuing
  <2>1. open \ {i} = {}
    BY <1>10, <1>14, <1>19, FS_EmptySet
  <2>2. /\ round' \in RoundType /\ ~ round'.in_flight /\ round'.token = round.token /\ OutcomeInv'
    BY <1>1, <1>2, <1>11, <1>13, <1>14, <1>16, <1>19, <2>1, RoundEnds
  <2>3. ClockType' /\ RoundInv' /\ KissInv'
    BY <1>1, <1>17, <2>2 DEF ClockType, RoundInv
  <2>4. CallsInv'
    BY <1>15, <1>18, <2>2 DEF CallsInv
  <2>. QED
    BY <2>2, <2>3, <2>4 DEF CInv
<1>20. CASE ~ (r.remaining = 0 /\ ~ r.issuing)
  <2>1. /\ round' = r /\ details' = ds /\ pending' = [pending EXCEPT ![i].settled = TRUE]
        /\ outcome' = outcome
    BY <1>11, <1>20
  <2>2. /\ pending' \in [Firsts(hosts) -> PendingType] /\ pending'[i].settled = TRUE
        /\ \A j \in Firsts(hosts) : j # i => pending'[j] = pending[j]
    BY <2>1, <1>5 DEF PendingType
  <2>3. Waiting(pending') = Waiting(pending) \ {i} /\ Open(slots', pending') = open \ {i}
    BY <2>2, <1>5 DEF Waiting, Open, open
  <2>4. /\ round'.in_flight /\ round'.token = round.token /\ round'.hosts = hosts
        /\ round'.remaining = round.remaining - 1 /\ round'.issuing = round.issuing
        /\ round' \in RoundType
    BY <2>1, <1>14
  <2>5. ClockType' /\ KissInv'
    BY <1>1, <1>17, <2>4 DEF ClockType
  <2>6. \A j \in Firsts(hosts) : j # i => kiss'[hosts[j]] = kiss[hosts[j]]
    BY <1>7, <1>17, <2>4
  <2>7. RoundInv'
    <3>1. \A j \in slots' : pending'[j].settled /\ (skip_reason(hosts[j]) = "")'
      BY <1>1, <1>2, <1>5, <2>2, <2>4, <2>6 DEF RoundInv, skip_reason
    <3>2. \A j \in open \ {i} : ~ kiss'[hosts[j]].blocked
      BY <1>1, <1>2, <1>9, <2>6 DEF RoundInv, open
    <3>3. slots' \subseteq Firsts(hosts) /\ (~ round.issuing => slots' = {})
      BY <1>1, <1>2 DEF RoundInv
    <3>. QED
      BY <3>1, <3>2, <3>3, <2>1, <2>2, <2>3, <2>4, <1>10, <1>13, <1>16 DEF RoundInv
  <2>8. CallsInv'
    <3>1. ASSUME NEW d \in calls', d.token = round.token
          PROVE  OfRound(d)'
      <4>1. PICK e \in calls : /\ d.slot = e.slot /\ d.token = e.token /\ d.host = e.host
                               /\ d.t1 = e.t1 /\ d.sent = e.sent
        BY <1>15
      <4>2. OfRound(e)
        BY <1>1, <1>2, <3>1, <4>1 DEF CallsInv
      <4>. QED
        BY <4>1, <4>2, <2>2, <2>4 DEF OfRound
    <3>2. ASSUME NEW j \in Waiting(pending')
          PROVE  \E d \in calls' : d.token = round.token /\ d.slot = j
      <4>1. PICK d \in calls : d.token = round.token /\ d.slot = j
        BY <1>1, <1>2, <2>3 DEF CallsInv
      <4>2. d # c
        BY <4>1, <1>4, <2>3
      <4>. QED  BY <4>1, <4>2, <1>15
    <3>. QED
      BY <1>15, <1>18, <2>4, <3>1, <3>2 DEF CallsInv
  <2>9. OutcomeInv'
    BY <1>1, <2>1, <2>4, <1>2 DEF OutcomeInv
  <2>. QED
    BY <2>5, <2>7, <2>8, <2>9 DEF CInv
<1>. QED
  BY <1>19, <1>20

LEMMA ClockStep == CInv /\ [ClockNext]_cvars => CInv'
<1>1. SUFFICES ASSUME CInv, [ClockNext]_cvars PROVE CInv'
  OBVIOUS
<1>2. ASSUME NEW hosts \in HostLists, probe(hosts) PROVE CInv'
  BY <1>1, <1>2, ProbeKeeps
<1>3. CASE Callback
  <2>1. PICK c \in calls : /\ Taken(c) /\ UNCHANGED <<steady, slots>>
                           /\ \E a \in IF accepted(c) THEN Answers(c) ELSE [status : {"timeout"}] :
                                 handle_exchange(c, a)
    BY <1>3 DEF Callback, Taken
  <2>2. CASE accepted(c)
    <3>1. PICK a \in Answers(c) : handle_exchange(c, a)
      BY <2>1, <2>2
    <3>. QED  BY <1>1, <2>1, <2>2, <3>1, AcceptedKeeps
  <2>3. CASE ~ accepted(c)
    <3>1. UNCHANGED <<steady, slots, round, details, pending, kiss, outcome, kisses>>
      BY <2>1, <2>3 DEF handle_exchange
    <3>. QED  BY <1>1, <2>1, <2>3, <3>1, DroppedKeeps
  <2>. QED  BY <2>2, <2>3
<1>4. CASE UNCHANGED cvars
  <2>1. UNCHANGED <<steady, round, details, pending, slots, kiss, calls, outcome, kisses>>
    BY <1>4 DEF cvars
  <2>2. ClockType' /\ RoundInv'
    BY <1>1, <2>1 DEF CInv, ClockType, RoundInv, Entries, Open, Waiting, skip_reason
  <2>3. CallsInv' /\ KissInv'
    BY <1>1, <2>1 DEF CInv, CallsInv, OfRound, Waiting, KissInv, Keeps, KissesKept
  <2>4. OutcomeInv'
    BY <1>1, <2>1 DEF CInv, OutcomeInv
  <2>. QED
    BY <2>2, <2>3, <2>4 DEF CInv
<1>. QED
  BY <1>1, <1>2, <1>3, <1>4, ExchangeKeeps, IssuedKeeps, SteadyKeeps DEF ClockNext

-----------------------------------------------------------------------------
(* The theorems. *)

LEMMA ClockHolds == CInv => ClockHonest
<1>1. SUFFICES ASSUME CInv PROVE ClockHonest
  OBVIOUS
<1>2. ClockType /\ RoundInv /\ CallsInv /\ KissInv /\ OutcomeInv /\ round \in RoundType
  BY <1>1 DEF CInv, ClockType
<1>3. ASSUME outcome.count > 0
      PROVE  /\ outcome.token = outcome.count /\ outcome.hosts \in Seq(Hosts)
             /\ Entries(outcome.servers, outcome.hosts)
             /\ \A i \in Firsts(outcome.hosts) : Settled(outcome.servers[i])
             /\ outcome.best = best_server(outcome.servers)
             /\ outcome.offset = IF outcome.best = 0 THEN NoValue ELSE outcome.servers[outcome.best].offset
             /\ outcome.bound = IF outcome.best = 0 THEN NoValue ELSE outcome.servers[outcome.best].bound
  BY <1>2, <1>3 DEF OutcomeInv
<1>4. RoundsDeliveredOnce
  <2>1. ASSUME outcome.count > 0
        PROVE  /\ {outcome.servers[j].host : j \in DOMAIN outcome.servers}
                    = {outcome.hosts[j] : j \in DOMAIN outcome.hosts}
               /\ \A i, j \in DOMAIN outcome.servers :
                     i # j => outcome.servers[i].host # outcome.servers[j].host
               /\ \A j \in DOMAIN outcome.servers :
                     outcome.servers[j].ok <=> outcome.servers[j].error = ""
    <3> DEFINE hosts == outcome.hosts
               servers == outcome.servers
    <3>1. /\ \A i, j \in Firsts(hosts) : hosts[i] = hosts[j] => i = j
          /\ {hosts[i] : i \in Firsts(hosts)} = {hosts[i] : i \in DOMAIN hosts}
      BY <1>3, <2>1, FirstsOf
    <3>2. DOMAIN servers = Firsts(hosts) /\ \A i \in Firsts(hosts) : servers[i].host = hosts[i]
      BY <1>3, <2>1 DEF Entries
    <3>3. {servers[j].host : j \in DOMAIN servers} = {hosts[i] : i \in Firsts(hosts)}
      BY <3>2
    <3>4. \A i, j \in DOMAIN servers : i # j => servers[i].host # servers[j].host
      BY <3>1, <3>2
    <3>5. \A j \in DOMAIN servers : Settled(servers[j])
      BY <3>2, <1>3, <2>1
    <3>6. \A j \in DOMAIN servers : servers[j].ok <=> servers[j].error = ""
      BY <3>5 DEF Settled
    <3>. QED
      BY <3>1, <3>3, <3>4, <3>6
  <2>2. ASSUME round.in_flight
        PROVE  round.remaining = Cardinality(slots \cup {i \in DOMAIN pending :
                 \E c \in calls : c.token = round.token /\ c.slot = i /\ ~ pending[i].settled})
    <3>1. Waiting(pending) = {i \in DOMAIN pending :
             \E c \in calls : c.token = round.token /\ c.slot = i /\ ~ pending[i].settled}
      BY <1>2, <2>2 DEF CallsInv, Waiting
    <3>. QED
      BY <1>2, <2>2, <3>1, Zenon DEF RoundInv, Open
  <2>. QED
    BY <1>2, <1>3, <2>1, <2>2 DEF OutcomeInv, RoundsDeliveredOnce
<1>5. AggregateHonest
  <2>1. SUFFICES ASSUME outcome.count > 0
                 PROVE  LET good == {j \in DOMAIN outcome.servers : outcome.servers[j].ok}
                            best == outcome.servers[outcome.best]
                        IN IF good = {} THEN outcome.best = 0 /\ outcome.offset = NoValue /\ outcome.bound = NoValue
                           ELSE /\ outcome.best \in good /\ outcome.offset = best.offset /\ outcome.bound = best.bound
                                /\ \A j \in good : best.rtt <= outcome.servers[j].rtt
                                /\ Abs(outcome.offset - Local) <= outcome.bound + 1
    BY DEF AggregateHonest
  <2> DEFINE servers == outcome.servers
             good == {j \in DOMAIN servers : servers[j].ok}
             best == best_server(servers)
  <2>2. DOMAIN servers = Firsts(outcome.hosts) /\ DOMAIN servers \in SUBSET (Nat \ {0})
    <3>1. /\ Firsts(outcome.hosts) \subseteq 1..Len(outcome.hosts) /\ Len(outcome.hosts) \in Nat
      BY <1>3, <2>1, FirstsOf
    <3>. QED  BY <3>1, <1>3, <2>1 DEF Entries
  <2>3. \A i \in good : Sampled(servers[i])
    BY <1>3, <2>1, <2>2 DEF Settled
  <2>4. IF good = {} THEN best = 0
        ELSE best \in good /\ \A j \in good : servers[best].rtt <= servers[j].rtt
    <3>1. \A i \in DOMAIN servers : servers[i].ok => servers[i].rtt \in Nat /\ servers[i].bound \in Nat
      BY <2>3 DEF Sampled
    <3>2. DOMAIN servers \in SUBSET Nat
      BY <2>2
    <3> HIDE DEF servers
    <3>. QED  BY <3>1, <3>2, BestServer
  <2>5. CASE good = {}
    BY <1>3, <2>1, <2>4, <2>5
  <2>6. CASE good # {}
    <3>1. best \in good /\ best # 0 /\ Sampled(servers[best])
      BY <2>2, <2>3, <2>4, <2>6
    <3>2. outcome.best = best /\ outcome.offset = servers[best].offset /\ outcome.bound = servers[best].bound
      BY <1>3, <2>1, <3>1
    <3>3. Abs(outcome.offset - Local) <= outcome.bound + 1
      BY <3>1, <3>2, Zenon DEF Sampled
    <3> HIDE DEF best
    <3>. QED  BY <2>4, <2>6, <3>1, <3>2, <3>3
  <2>. QED  BY <2>5, <2>6
<1>. QED
  BY <1>2, <1>4, <1>5 DEF ClockHonest, KissInv

(* ClockHonest, for any list of servers, any wall clock and any length of a run
   within half an era: rounds are handed over once, with every server settled
   (clock_probe.cpp probe, handle_exchange, finish_round); no answer lifts a
   kiss (note_kiss, skip_reason); the aggregate is the fastest measurement and
   within its bound (derive_sample, finish_round). *)
THEOREM ClockCorrect == ClockSpec => []ClockHonest
<1>1. ClockInit => CInv
  BY ClockStart
<1>2. CInv /\ [ClockNext]_cvars => CInv'
  BY ClockStep
<1>3. CInv => ClockHonest
  BY ClockHolds
<1>. QED
  BY <1>1, <1>2, <1>3, PTL DEF ClockSpec

-----------------------------------------------------------------------------
(***************************************************************************)
(* ReadingsHonest is an invariant of MetricsSpec.                          *)
(*                                                                         *)
(* MetricsIInv strengthens it with what ties the state to the histories:   *)
(* a device's growth reaches from its first sample to its baseline         *)
(* (RateInv), a core's count is its run of high usages up to the number    *)
(* required (Follows), the milestone of an alarm is not behind its last    *)
(* record (Counted), and gauges, rates and CPU hold what the last tick     *)
(* read (SnapInv).                                                         *)
(***************************************************************************)

Configs ==
  [groups : SUBSET Groups, level : Nat, repeat : Nat, sustain : Nat \ {0}, hidden : SUBSET Devices]

Times == [cores : SUBSET Cores, high : SUBSET Cores, bad : SUBSET Cores,
          total : BOOLEAN, switches : BOOLEAN]

ConfInv ==
  /\ kind \in Kinds /\ clock \in Nat /\ sets \in Nat
  /\ deadline \in Nat \cup {-1}
  /\ IF deadline = -1 THEN clock = 0 ELSE clock <= deadline
  /\ conf \in Configs
  /\ raw = [reading |-> raw.reading, conf |-> raw.conf] /\ raw.conf \in Configs
  /\ sets = 0 => conf = raw.conf

IsGauge(g) ==
  /\ g = [disabled |-> g.disabled, collected |-> g.collected, supported |-> g.supported,
          value |-> g.value]
  /\ g.disabled \in BOOLEAN /\ g.collected \in BOOLEAN /\ g.supported \in BOOLEAN

Baseline(b) == \E ds \in SUBSET Devices : b \in [at : Nat, sample : [ds -> Nat]]

IsRate(x) ==
  /\ x = [disabled |-> x.disabled, collected |-> x.collected, value |-> x.value,
          baseline |-> x.baseline]
  /\ x.disabled \in BOOLEAN /\ x.collected \in BOOLEAN
  /\ x.baseline = Null \/ Baseline(x.baseline)

(* What was published of a counter, as far back as its baseline reaches. *)
RateInv(x, g) ==
  /\ IsRate(x)
  /\ x.baseline = Null => g = <<>>
  /\ x.baseline # Null =>
       /\ g \in [DOMAIN x.baseline.sample -> [first : Int, published : Int]]
       /\ \A d \in DOMAIN g : x.baseline.sample[d] = g[d].first + g[d].published

MetricsTypes ==
  /\ \A d \in Gauges : IsGauge(gauge[d])
  /\ \A d \in Rates : RateInv(rate[d], growth[d])

Follows(n, r) ==
  /\ n \in Nat /\ r \in Nat /\ n <= r
  /\ sets = 0 => n <= conf.sustain /\ (n = r \/ n = conf.sustain)

(* The counts of the tracker are those of the runs, up to the number that
   makes a core saturated; after a baseline there are none. *)
CpuFields == {"disabled", "prev", "cores_collected", "rates_collected", "usage", "saturated",
              "total", "switches"}

CpuShape(c) ==
  /\ DOMAIN c = CpuFields
  /\ c.disabled \in BOOLEAN
  /\ c.usage = [i \in DOMAIN c.usage |-> c.usage[i]]
  /\ c.prev \in {Null} \cup Times
  /\ c.prev = Null => c.total = Null /\ \A i \in DOMAIN c.usage : c.usage[i] = Null
  /\ (c.prev # Null /\ c.prev.cores # {}) => DOMAIN c.usage = c.prev.cores

CountsInv(S, n, r) ==
  /\ r \in [S -> Nat]
  /\ n \in [S -> Nat] \/ (DOMAIN n = {} /\ \A i \in S : r[i] = 0)
  /\ \A i \in DOMAIN n : Follows(n[i], r[i])

CpuInv ==
  /\ CpuShape(cpu) /\ CountsInv(DOMAIN cpu.usage, tracker, runs)
  /\ cpu.prev = Null => DOMAIN tracker = {}

AlarmRecs == [since : Nat, milestone : Nat, every : Nat]
LogRecs   == [open : BOOLEAN, since : Nat, prior : Nat, last : Nat,
              record : {"none", "entered", "ongoing", "recovered"}]

(* The milestone of an alarm is not behind its last record. *)
Counted(a, l, t) ==
  /\ a \in AlarmRecs /\ a.since = l.since /\ l.since <= l.last /\ l.last <= t
  /\ a.every > 0 => (l.last - l.since) \div a.every <= a.milestone

AlarmInv ==
  /\ DOMAIN alarms \subseteq Subjects
  /\ \A s \in Subjects : /\ logbook[s] \in LogRecs
                         /\ logbook[s].open <=> s \in DOMAIN alarms
  /\ \A s \in DOMAIN alarms : Counted(alarms[s], logbook[s], clock)

(* The values that the snapshot is made of. *)
SnapInv ==
  /\ \A d \in Gauges \ {"load"} :
       /\ Shown(gauge[d]) = Was(d)
       /\ gauge[d].disabled <=> d \notin raw.conf.groups \cup {"shm_dir"}
  /\ \A d \in Rates :
       /\ rate[d].disabled <=> d \notin raw.conf.groups
       /\ Shown(rate[d]) = Null <=> Was(d) = Null
       /\ Was(d) # Null => \E ds \in SUBSET Devices : rate[d].value \in [ds -> Nat \cup {Null}]
  /\ cpu.disabled <=> "cpu" \notin raw.conf.groups
  /\ "cpu" \in raw.conf.groups => gauge["load"].value = Reading(raw.reading, "load")
  /\ cpu.total # Null => cpu.total = clock /\ Was("cpu").total

(* After the first tick the snapshot's sources are those of the last reading. *)
MetricsIInv ==
  /\ ConfInv /\ MetricsTypes /\ CpuInv /\ AlarmInv
  /\ deadline >= 0 => SnapInv
  /\ LogFollowsReadings /\ RemindersSpaced /\ SaturationEarned

-----------------------------------------------------------------------------

LEMMA DivGrows ==
    ASSUME NEW a \in Nat, NEW b \in Nat, a <= b, NEW n \in Nat \ {0}
    PROVE  a \div n \in Nat /\ a \div n <= b \div n
OBVIOUS

(* What can be read of counters and of the CPU. *)
LEMMA ReadingsOf ==
    ASSUME kind \in Kinds, NEW r \in Collected(kind)
    PROVE  /\ Reading(r, "cpu") \in {Null} \cup Times
           /\ \A d \in Rates : Reading(r, d) = Null \/
                \E ds \in SUBSET Devices : Reading(r, d) \in [ds -> Nat]
<1>1. kind \in {"gauges", "memory", "swap", "volumes", "disk_io", "network", "cpu"}
  BY MetricsAssumption
<1>2. CASE kind = "gauges"
  <2>1. DOMAIN r = {"temperature", "frequency", "shm_dir", "load"}
    BY <1>2 DEF Collected
  <2>. QED  BY <2>1 DEF Reading, Rates
<1>3. CASE kind \in {"memory", "swap", "volumes"}
  <2>1. DOMAIN r = {kind}
    BY <1>3 DEF Collected
  <2>. QED  BY <1>3, <2>1 DEF Reading, Rates
<1>4. CASE kind \in Rates
  <2>1. DOMAIN r = {kind} /\ r[kind] \in Counters
    BY <1>4 DEF Collected, Rates, read_disk_io, read_network
  <2>2. r[kind] = Null \/ \E ds \in SUBSET Devices : r[kind] \in [ds -> 0..MaxCounter]
    BY <2>1 DEF Counters
  <2>3. \A ds \in SUBSET Devices : [ds -> 0..MaxCounter] \subseteq [ds -> Nat]
    OBVIOUS
  <2>4. r[kind] = Null \/ \E ds \in SUBSET Devices : r[kind] \in [ds -> Nat]
    BY <2>2, <2>3
  <2>. QED  BY <1>4, <2>1, <2>4 DEF Reading, Rates
<1>5. CASE kind = "cpu"
  <2>1. DOMAIN r = {"cpu"} /\ r["cpu"] \in read_cpu_times
    BY <1>5 DEF Collected
  <2>. QED  BY <2>1 DEF Reading, Rates, read_cpu_times, Times
<1>. QED
  BY <1>1, <1>2, <1>3, <1>4, <1>5 DEF Rates

(* Gauges. *)
LEMMA RefreshGauge ==
    ASSUME NEW g, IsGauge(g), NEW e \in BOOLEAN, NEW v
    PROVE  LET n == refresh_gauge(g, e, v)
           IN  /\ IsGauge(n) /\ (n.disabled <=> ~e)
               /\ Shown(n) = IF e THEN v ELSE Null
               /\ e => n.value = v
               /\ e /\ v # Null => n.supported = (v # Nothing)
BY DEF refresh_gauge, IsGauge, Shown

(* Rates. *)
LEMMA MovedIs ==
    ASSUME NEW x, IsRate(x), NEW t \in Nat, NEW ds \in SUBSET Devices, NEW count \in [ds -> Nat],
           NEW d \in ds
    PROVE  LET v == compute_rate(x.baseline, t, count, d)
           IN  /\ v \in Nat \cup {Null}
               /\ v # Null <=> /\ x.baseline # Null /\ t > x.baseline.at
                               /\ d \in DOMAIN x.baseline.sample
                               /\ count[d] >= x.baseline.sample[d]
               /\ v # Null => v = count[d] - x.baseline.sample[d]
<1>1. CASE x.baseline = Null
  BY <1>1 DEF compute_rate
<1>2. CASE x.baseline # Null
  <2>1. PICK bs \in SUBSET Devices : x.baseline \in [at : Nat, sample : [bs -> Nat]]
    BY <1>2 DEF IsRate, Baseline
  <2>2. CASE t <= x.baseline.at \/ d \notin DOMAIN x.baseline.sample
    <3>1. compute_rate(x.baseline, t, count, d) = Null
      BY <2>2 DEF compute_rate
    <3>. QED  BY <2>1, <2>2, <3>1
  <2>3. CASE ~(t <= x.baseline.at \/ d \notin DOMAIN x.baseline.sample)
    <3>1. x.baseline.sample[d] \in Nat /\ count[d] \in Nat /\ x.baseline.at \in Nat
      BY <2>1, <2>3
    <3>2. compute_rate(x.baseline, t, count, d) = counter_delta(x.baseline.sample[d], count[d])
      BY <1>2, <2>3 DEF compute_rate
    <3>3. Null \notin Nat
      BY MetricsAssumption
    <3>. QED  BY <1>2, <2>3, <3>1, <3>2, <3>3 DEF counter_delta
  <2>. QED  BY <2>2, <2>3
<1>. QED
  BY <1>1, <1>2

LEMMA RefreshRate ==
    ASSUME NEW x, NEW g, RateInv(x, g), NEW e \in BOOLEAN, NEW t \in Nat, NEW count,
           count = Null \/ \E ds \in SUBSET Devices : count \in [ds -> Nat]
    PROVE  LET n == refresh_rate(x, e, t, count)
           IN  /\ RateInv(n, Growth(g, x, n, e, count))
               /\ n.disabled <=> ~e
               /\ Shown(n) = Null <=> ~e \/ count = Null
               /\ e /\ count # Null => \E ds \in SUBSET Devices : n.value \in [ds -> Nat \cup {Null}]
<1> DEFINE n == refresh_rate(x, e, t, count)
<1>1. CASE ~e
  <2>1. n = [x EXCEPT !.disabled = TRUE, !.value = Null, !.baseline = Null]
    BY <1>1 DEF refresh_rate
  <2>2. Growth(g, x, n, e, count) = <<>>
    BY <1>1 DEF Growth
  <2>. QED  BY <1>1, <2>1, <2>2 DEF RateInv, IsRate, Shown
<1>2. CASE e /\ count = Null
  <2>1. n = [x EXCEPT !.disabled = FALSE, !.value = Null]
    BY <1>2 DEF refresh_rate
  <2>2. Growth(g, x, n, e, count) = g
    BY <1>2 DEF Growth
  <2>3. /\ n.baseline = x.baseline /\ n.value = Null /\ n.disabled = FALSE
        /\ n.collected = x.collected /\ IsRate(n)
    BY <2>1 DEF RateInv, IsRate
  <2>. QED  BY <1>2, <2>2, <2>3 DEF RateInv, Shown
<1>3. CASE e /\ count # Null
  <2>1. PICK ds \in SUBSET Devices : count \in [ds -> Nat]
    BY <1>3
  <2> DEFINE value == [d \in ds |-> compute_rate(x.baseline, t, count, d)]
             base == [at |-> t, sample |-> count]
             after == Growth(g, x, n, e, count)
  <2>2. n = [disabled |-> FALSE, collected |-> TRUE, value |-> value, baseline |-> base]
    BY <1>3, <2>1 DEF refresh_rate
  <2>3. base \in [at : Nat, sample : [ds -> Nat]] /\ base # Null
    BY <2>1, MetricsAssumption
  <2>4. IsRate(x)
    BY DEF RateInv
  <2>5. value \in [ds -> Nat \cup {Null}] /\ value # Null
    <3>1. \A d \in ds : value[d] \in Nat \cup {Null}
      BY <2>1, <2>4, MovedIs
    <3>2. value \in [ds -> Nat \cup {Null}]
      BY <3>1
    <3>. QED  BY <3>2, MetricsAssumption
  <2>6. IsRate(n) /\ n.baseline # Null /\ n.baseline = base /\ n.value = value
    BY <2>2, <2>3 DEF IsRate, Baseline
  <2>7. after = [d \in ds |->
              LET moved == IF value[d] = Null THEN 0 ELSE value[d]
              IN IF /\ d \in DOMAIN g /\ d \in DOMAIN x.baseline.sample
                    /\ count[d] >= x.baseline.sample[d] /\ t > x.baseline.at
                 THEN [g[d] EXCEPT !.published = @ + moved]
                 ELSE [first |-> count[d], published |-> moved]]
    <3>1. after = [d \in DOMAIN count |->
              LET moved == IF n.value[d] = Null THEN 0 ELSE n.value[d]
              IN IF /\ d \in DOMAIN g /\ d \in DOMAIN x.baseline.sample
                    /\ count[d] >= x.baseline.sample[d] /\ n.baseline.at > x.baseline.at
                 THEN [g[d] EXCEPT !.published = @ + moved]
                 ELSE [first |-> count[d], published |-> moved]]
      BY <1>3 DEF Growth
    <3>2. DOMAIN count = ds /\ n.baseline.at = t /\ n.value = value
      BY <2>1, <2>6
    <3> HIDE DEF after, n, value
    <3>. QED  BY <3>1, <3>2
  <2>8. ASSUME NEW d \in ds
        PROVE  /\ after[d] \in [first : Int, published : Int]
               /\ count[d] = after[d].first + after[d].published
    <3>1. count[d] \in Nat
      BY <2>1
    <3> DEFINE moved == IF value[d] = Null THEN 0 ELSE value[d]
               lasts == /\ d \in DOMAIN g /\ d \in DOMAIN x.baseline.sample
                        /\ count[d] >= x.baseline.sample[d] /\ t > x.baseline.at
    <3>2. after[d] = IF lasts THEN [g[d] EXCEPT !.published = @ + moved]
                     ELSE [first |-> count[d], published |-> moved]
      BY <2>7
    <3>3. /\ value[d] \in Nat \cup {Null}
          /\ value[d] # Null <=> /\ x.baseline # Null /\ t > x.baseline.at
                                 /\ d \in DOMAIN x.baseline.sample
                                 /\ count[d] >= x.baseline.sample[d]
          /\ value[d] # Null => value[d] = count[d] - x.baseline.sample[d]
      BY <2>1, <2>4, MovedIs
    <3>4. CASE x.baseline = Null
      <4>1. ~lasts /\ moved = 0
        BY <3>3, <3>4 DEF RateInv
      <4>2. after[d] = [first |-> count[d], published |-> 0]
        BY <3>2, <4>1
      <4>. QED  BY <3>1, <4>2
    <3>5. CASE x.baseline # Null
      <4>1. /\ g \in [DOMAIN x.baseline.sample -> [first : Int, published : Int]]
            /\ \A i \in DOMAIN g : x.baseline.sample[i] = g[i].first + g[i].published
        BY <3>5 DEF RateInv
      <4>2. CASE lasts
        <5>1. moved = count[d] - x.baseline.sample[d]
          BY <3>3, <3>5, <4>2
        <5>2. g[d] \in [first : Int, published : Int]
              /\ x.baseline.sample[d] = g[d].first + g[d].published
          BY <4>1, <4>2
        <5>3. after[d] = [g[d] EXCEPT !.published = @ + moved]
          BY <3>2, <4>2
        <5>4. after[d].first = g[d].first /\ after[d].published = g[d].published + moved
              /\ after[d] = [first |-> g[d].first, published |-> g[d].published + moved]
          BY <5>2, <5>3
        <5> HIDE DEF moved
        <5>5. x.baseline.sample[d] \in Int
          BY <5>2
        <5>. QED  BY <5>1, <5>2, <5>4, <5>5, <3>1
      <4>3. CASE ~lasts
        <5>1. moved = 0
          BY <3>3, <3>5, <4>1, <4>3
        <5>2. after[d] = [first |-> count[d], published |-> 0]
          BY <3>2, <4>3, <5>1
        <5>. QED  BY <3>1, <5>2
      <4>. QED  BY <4>2, <4>3
    <3>. QED  BY <3>4, <3>5
  <2>9. after \in [ds -> [first : Int, published : Int]]
    <3>1. DOMAIN after = ds /\ after = [d \in ds |-> after[d]]
      BY <2>7
    <3> HIDE DEF after
    <3>. QED  BY <2>8, <3>1
  <2>10. n.baseline.sample = count /\ DOMAIN count = ds
    BY <2>1, <2>6
  <2>11. RateInv(n, after)
    <3> HIDE DEF after, n
    <3>. QED  BY <2>6, <2>8, <2>9, <2>10 DEF RateInv
  <2>12. Shown(n) = value /\ n.disabled = FALSE
    BY <2>2 DEF Shown
  <2>13. \E bs \in SUBSET Devices : n.value \in [bs -> Nat \cup {Null}]
    <3> HIDE DEF n, value
    <3>. QED  BY <2>5, <2>6
  <2>14. Shown(n) # Null
    <3> HIDE DEF n, value
    <3>. QED  BY <2>5, <2>12
  <2>. QED  BY <1>3, <2>11, <2>12, <2>13, <2>14
<1>. QED
  BY <1>1, <1>2, <1>3

(* The CPU. *)
LEMMA CountFollows ==
    ASSUME ConfInv, NEW n, NEW r, Follows(n, r), NEW u
    PROVE  Follows(CASE u = "high" -> IF n < conf.sustain THEN n + 1 ELSE n
                     [] u = "low"  -> 0
                     [] OTHER      -> n,
                   IF u = "low" THEN 0 ELSE IF u = "high" THEN r + 1 ELSE r)
<1>1. conf.sustain \in Nat \ {0}
  BY DEF ConfInv, Configs
<1>2. CASE u = "high"
  BY <1>1, <1>2 DEF Follows
<1>3. CASE u = "low"
  BY <1>1, <1>3 DEF Follows
<1>4. CASE u \notin {"high", "low"}
  BY <1>1, <1>4 DEF Follows
<1>. QED
  BY <1>2, <1>3, <1>4

(* The new usages, counts and runs when there are cores to compare. *)
LEMMA CoresFollow ==
    ASSUME ConfInv, CpuInv, NEW t \in Times, cpu.prev # Null, t.cores # {},
           NEW c, c.usage = compute_core_usages(cpu.prev, t), c.disabled = FALSE
    PROVE  LET n == saturation_update(tracker, c.usage, conf.sustain)
               r == Runs(runs, c)
           IN  /\ DOMAIN c.usage = t.cores
               /\ n \in [t.cores -> Nat] /\ r \in [t.cores -> Nat]
               /\ \A i \in t.cores : Follows(n[i], r[i])
<1> DEFINE u == c.usage
           n == saturation_update(tracker, u, conf.sustain)
           r == Runs(runs, c)
           old == IF DOMAIN tracker = t.cores THEN tracker ELSE [i \in t.cores |-> 0]
<1>1. DOMAIN u = t.cores
  BY DEF compute_core_usages
<1>2. n = [i \in t.cores |->
             CASE u[i] = "high" -> IF old[i] < conf.sustain THEN old[i] + 1 ELSE old[i]
               [] u[i] = "low"  -> 0
               [] OTHER         -> old[i]]
  BY <1>1 DEF saturation_update
<1>3. r = [i \in t.cores |->
             IF DOMAIN runs # t.cores \/ u[i] = "low" THEN 0
             ELSE IF u[i] = "high" THEN runs[i] + 1 ELSE runs[i]]
  BY <1>1 DEF Runs
<1>4. DOMAIN runs = DOMAIN cpu.usage
  BY DEF CpuInv, CpuShape, CountsInv
<1>5. ASSUME NEW i \in t.cores PROVE Follows(n[i], r[i])
  <2>1. CASE t.cores = DOMAIN cpu.usage
    <3>1. Follows(old[i], runs[i])
      <4>1. CASE tracker \in [DOMAIN cpu.usage -> Nat]
        BY <2>1, <4>1 DEF CpuInv, CpuShape, CountsInv
      <4>2. CASE DOMAIN tracker = {} /\ \A j \in DOMAIN cpu.usage : runs[j] = 0
        <5>1. old[i] = 0 /\ runs[i] = 0
          BY <2>1, <1>4, <4>2
        <5>. QED  BY <5>1 DEF Follows, ConfInv, Configs
      <4>. QED  BY <4>1, <4>2 DEF CpuInv, CpuShape, CountsInv
    <3>2. r[i] = IF u[i] = "low" THEN 0 ELSE IF u[i] = "high" THEN runs[i] + 1 ELSE runs[i]
      BY <1>3, <1>4, <2>1
    <3>3. n[i] = CASE u[i] = "high" -> IF old[i] < conf.sustain THEN old[i] + 1 ELSE old[i]
                   [] u[i] = "low"  -> 0
                   [] OTHER         -> old[i]
      BY <1>2
    <3> HIDE DEF n, r, u, old
    <3>. QED  BY <3>1, <3>2, <3>3, CountFollows
  <2>2. CASE t.cores # DOMAIN cpu.usage
    <3>1. cpu.prev.cores # t.cores
      BY <2>2 DEF CpuInv, CpuShape, CountsInv
    <3>2. u[i] = Null
      BY <3>1 DEF compute_core_usages
    <3>3. DOMAIN tracker # t.cores
      BY <2>2 DEF CpuInv, CpuShape, CountsInv
    <3>4. n[i] = 0
      BY <1>2, <3>2, <3>3, MetricsAssumption
    <3>5. r[i] = 0
      BY <1>3, <1>4, <2>2
    <3>. QED  BY <3>4, <3>5 DEF Follows, ConfInv, Configs
  <2>. QED  BY <2>1, <2>2
<1>6. n \in [t.cores -> Nat] /\ r \in [t.cores -> Nat]
  <2>1. n = [i \in t.cores |-> n[i]] /\ r = [i \in t.cores |-> r[i]]
    BY <1>2, <1>3
  <2> HIDE DEF n, r
  <2>. QED  BY <1>5, <2>1 DEF Follows
<1>. QED
  BY <1>1, <1>5, <1>6

LEMMA CpuKept ==
    ASSUME CpuShape(cpu'), CountsInv(DOMAIN cpu'.usage, tracker', runs'),
           cpu'.prev = Null => DOMAIN tracker' = {}, conf' = conf, sets' = sets
    PROVE  CpuInv'
<1>1. ASSUME NEW i \in DOMAIN tracker' PROVE Follows(tracker[i], runs[i])'
  BY <1>1 DEF CountsInv, Follows
<1>2. CpuShape(cpu)'
  BY DEF CpuShape
<1>3. CountsInv(DOMAIN cpu.usage, tracker, runs)'
  BY DEF CountsInv, Follows
<1>. QED
  BY <1>2, <1>3 DEF CpuInv

(* What matters of a record of CPU metrics, and how the steps of a measurement
   change it. *)
CpuIs(c, dis, prev, u, sat, tot) ==
  /\ DOMAIN c = CpuFields
  /\ c.disabled = dis /\ c.prev = prev /\ c.usage = u /\ c.saturated = sat /\ c.total = tot

LEMMA CpuSet ==
    ASSUME NEW c, DOMAIN c = CpuFields, NEW x
    PROVE  /\ CpuIs([c EXCEPT !.disabled = x], x, c.prev, c.usage, c.saturated, c.total)
           /\ CpuIs([c EXCEPT !.prev = x], c.disabled, x, c.usage, c.saturated, c.total)
           /\ CpuIs([c EXCEPT !.usage = x], c.disabled, c.prev, x, c.saturated, c.total)
           /\ CpuIs([c EXCEPT !.saturated = x], c.disabled, c.prev, c.usage, x, c.total)
           /\ CpuIs([c EXCEPT !.total = x], c.disabled, c.prev, c.usage, c.saturated, x)
           /\ CpuIs([c EXCEPT !.switches = x], c.disabled, c.prev, c.usage, c.saturated, c.total)
           /\ CpuIs([c EXCEPT !.cores_collected = x], c.disabled, c.prev, c.usage, c.saturated, c.total)
           /\ CpuIs([c EXCEPT !.rates_collected = x], c.disabled, c.prev, c.usage, c.saturated, c.total)
<1>1. CpuIs([c EXCEPT !.disabled = x], x, c.prev, c.usage, c.saturated, c.total)
  BY DEF CpuIs, CpuFields
<1>2. CpuIs([c EXCEPT !.prev = x], c.disabled, x, c.usage, c.saturated, c.total)
  BY DEF CpuIs, CpuFields
<1>3. CpuIs([c EXCEPT !.usage = x], c.disabled, c.prev, x, c.saturated, c.total)
  BY DEF CpuIs, CpuFields
<1>4. CpuIs([c EXCEPT !.saturated = x], c.disabled, c.prev, c.usage, x, c.total)
  BY DEF CpuIs, CpuFields
<1>5. CpuIs([c EXCEPT !.total = x], c.disabled, c.prev, c.usage, c.saturated, x)
  BY DEF CpuIs, CpuFields
<1>6. CpuIs([c EXCEPT !.switches = x], c.disabled, c.prev, c.usage, c.saturated, c.total)
  BY DEF CpuIs, CpuFields
<1>7. CpuIs([c EXCEPT !.cores_collected = x], c.disabled, c.prev, c.usage, c.saturated, c.total)
  BY DEF CpuIs, CpuFields
<1>8. CpuIs([c EXCEPT !.rates_collected = x], c.disabled, c.prev, c.usage, c.saturated, c.total)
  BY DEF CpuIs, CpuFields
<1>. QED
  BY <1>1, <1>2, <1>3, <1>4, <1>5, <1>6, <1>7, <1>8

LEMMA ClearedIs ==
    ASSUME NEW c, DOMAIN c = CpuFields
    PROVE  CpuIs(clear_cpu_values(c), c.disabled, c.prev, [i \in DOMAIN c.usage |-> Null], {}, Null)
<1> DEFINE c1 == [c EXCEPT !.usage = [i \in DOMAIN c.usage |-> Null]]
           c2 == [c1 EXCEPT !.saturated = {}]
           c3 == [c2 EXCEPT !.total = Null]
           c4 == [c3 EXCEPT !.switches = Null]
<1>1. clear_cpu_values(c) = c4
  BY DEF clear_cpu_values
<1>2. CpuIs(c1, c.disabled, c.prev, [i \in DOMAIN c.usage |-> Null], c.saturated, c.total)
  BY CpuSet
<1> HIDE DEF c1
<1>3. CpuIs(c2, c.disabled, c.prev, [i \in DOMAIN c.usage |-> Null], {}, c.total)
  BY <1>2, CpuSet DEF CpuIs
<1> HIDE DEF c2
<1>4. CpuIs(c3, c.disabled, c.prev, [i \in DOMAIN c.usage |-> Null], {}, Null)
  BY <1>3, CpuSet DEF CpuIs
<1> HIDE DEF c3
<1>5. CpuIs(c4, c.disabled, c.prev, [i \in DOMAIN c.usage |-> Null], {}, Null)
  BY <1>4, CpuSet DEF CpuIs
<1>. QED
  BY <1>1, <1>5

LEMMA BaselineIs ==
    ASSUME NEW c, DOMAIN c = CpuFields, NEW t
    PROVE  CpuIs(apply_baseline(c, t), c.disabled, t,
                 IF t.cores # {} THEN [i \in t.cores |-> Null] ELSE c.usage, {}, c.total)
<1> DEFINE u == IF t.cores # {} THEN [i \in t.cores |-> Null] ELSE c.usage
           c1 == [c EXCEPT !.prev = t]
           c2 == [c1 EXCEPT !.cores_collected = @ \/ t.cores # {}]
           c3 == [c2 EXCEPT !.usage = IF t.cores # {} THEN [i \in t.cores |-> Null] ELSE @]
           c4 == [c3 EXCEPT !.saturated = {}]
           c5 == [c4 EXCEPT !.rates_collected = @ \/ t.switches]
           c6 == [c5 EXCEPT !.switches = Null]
<1>2. CpuIs(c1, c.disabled, t, c.usage, c.saturated, c.total)
  BY CpuSet
<1>3. CpuIs(c2, c.disabled, t, c.usage, c.saturated, c.total)
  <2> HIDE DEF c1
  <2>. QED  BY <1>2, CpuSet DEF CpuIs
<1>4. CpuIs(c3, c.disabled, t, u, c.saturated, c.total)
  <2> HIDE DEF c2
  <2>. QED  BY <1>3, CpuSet DEF CpuIs
<1>5. CpuIs(c4, c.disabled, t, u, {}, c.total)
  <2> HIDE DEF c3, u
  <2>. QED  BY <1>4, CpuSet DEF CpuIs
<1>6. CpuIs(c5, c.disabled, t, u, {}, c.total)
  <2> HIDE DEF c4, u
  <2>. QED  BY <1>5, CpuSet DEF CpuIs
<1>7. CpuIs(c6, c.disabled, t, u, {}, c.total)
  <2> HIDE DEF c5, u
  <2>. QED  BY <1>6, CpuSet DEF CpuIs
<1>1. apply_baseline(c, t)
        = [c EXCEPT !.prev = t, !.cores_collected = c.cores_collected \/ t.cores # {},
              !.usage = IF t.cores # {} THEN [i \in t.cores |-> Null] ELSE c.usage,
              !.saturated = {}, !.rates_collected = c.rates_collected \/ t.switches, !.switches = Null]
  BY DEF apply_baseline
<1>. QED
  BY <1>1, <1>7

LEMMA CpuKeeps ==
    ASSUME ConfInv, CpuInv, NEW t \in {Null} \cup Times, NEW at \in Nat,
           NEW m, m = measure_cpu(t, at),
           cpu' = m.cpu, tracker' = m.tracker, runs' = Runs(runs, m.cpu),
           conf' = conf, sets' = sets, raw'.conf = conf
    PROVE  /\ CpuInv' /\ SaturationEarned'
           /\ cpu'.disabled <=> "cpu" \notin conf.groups
           /\ cpu'.total # Null => /\ cpu'.total = at /\ "cpu" \in conf.groups
                                   /\ t # Null /\ t.total
<1> DEFINE U == DOMAIN cpu.usage
           Quiet == [i \in U |-> Null]
           on == [cpu EXCEPT !.disabled = FALSE]
<1>0. conf.sustain \in Nat \ {0} /\ Null \notin {"high", "low"}
  BY MetricsAssumption DEF ConfInv, Configs
<1>a. /\ DOMAIN cpu = CpuFields /\ cpu.usage = [i \in U |-> cpu.usage[i]]
      /\ DOMAIN runs = U /\ runs \in [U -> Nat]
  BY DEF CpuInv, CpuShape, CountsInv
<1>b. CpuIs(on, FALSE, cpu.prev, cpu.usage, cpu.saturated, cpu.total)
  BY <1>a, CpuSet
<1>c. CpuIs(clear_cpu_values(cpu), cpu.disabled, cpu.prev, Quiet, {}, Null)
  BY <1>a, ClearedIs
<1>d. CpuIs(clear_cpu_values(on), FALSE, cpu.prev, Quiet, {}, Null)
  <2> HIDE DEF on
  <2>. QED  BY <1>b, ClearedIs DEF CpuIs
<1>e. CpuIs([clear_cpu_values(on) EXCEPT !.prev = t], FALSE, t, Quiet, {}, Null)
  <2> HIDE DEF on
  <2>. QED  BY <1>d, CpuSet DEF CpuIs
<1>f. ASSUME NEW c, DOMAIN c = CpuFields, NEW x, NEW y, NEW z
      PROVE  CpuIs([c EXCEPT !.total = x, !.rates_collected = y, !.switches = z],
                   c.disabled, c.prev, c.usage, c.saturated, x)
  <2> DEFINE c1 == [c EXCEPT !.total = x]
             c2 == [c1 EXCEPT !.rates_collected = y]
             c3 == [c2 EXCEPT !.switches = z]
  <2>1. CpuIs(c1, c.disabled, c.prev, c.usage, c.saturated, x)
    BY <1>f, CpuSet
  <2>2. CpuIs(c2, c.disabled, c.prev, c.usage, c.saturated, x)
    <3> HIDE DEF c1
    <3>. QED  BY <2>1, CpuSet DEF CpuIs
  <2>3. CpuIs(c3, c.disabled, c.prev, c.usage, c.saturated, x)
    <3> HIDE DEF c2
    <3>. QED  BY <2>2, CpuSet DEF CpuIs
  <2>. QED  BY <2>3
<1>1. CASE "cpu" \notin conf.groups
  <2>1. CpuIs(m.cpu, TRUE, Null, Quiet, {}, Null) /\ m.tracker = <<>>
    <3> DEFINE c0 == clear_cpu_values(cpu)
               c1 == [c0 EXCEPT !.disabled = TRUE]
               c2 == [c1 EXCEPT !.prev = Null]
    <3>1. m.cpu = c2 /\ m.tracker = <<>>
      BY <1>1 DEF measure_cpu
    <3>2. CpuIs(c1, TRUE, cpu.prev, Quiet, {}, Null)
      <4> HIDE DEF c0
      <4>. QED  BY <1>c, CpuSet DEF CpuIs, c0
    <3>3. CpuIs(c2, TRUE, Null, Quiet, {}, Null)
      <4> HIDE DEF c1
      <4>. QED  BY <3>2, CpuSet DEF CpuIs
    <3>. QED  BY <3>1, <3>3
  <2>2. runs' = [i \in U |-> 0]
    BY <2>1 DEF Runs, CpuIs
  <2>3. CpuShape(m.cpu) /\ DOMAIN m.cpu.usage = U
    BY <2>1 DEF CpuShape, CpuIs
  <2>5. CountsInv(U, <<>>, runs')
    BY <2>2 DEF CountsInv
  <2>4. SaturationEarned'
    BY <2>1 DEF SaturationEarned, CpuIs
  <2>. QED  BY <1>1, <2>1, <2>3, <2>4, <2>5, CpuKept DEF CpuIs
<1>2. CASE "cpu" \in conf.groups /\ t = Null
  <2>1. CpuIs(m.cpu, FALSE, cpu.prev, Quiet, {}, Null) /\ m.tracker = tracker
    BY <1>2, <1>d DEF measure_cpu
  <2>2. runs' = [i \in U |-> IF cpu.prev = Null THEN 0 ELSE runs[i]]
    <3>1. DOMAIN m.cpu.usage = U /\ \A i \in U : m.cpu.usage[i] = Null
      BY <2>1 DEF CpuIs
    <3>. QED  BY <1>0, <1>a, <2>1, <3>1 DEF Runs, CpuIs
  <2>3. /\ runs' \in [U -> Nat]
        /\ cpu.prev # Null => runs' = runs
    BY <1>a, <2>2
  <2>4. CpuShape(m.cpu) /\ DOMAIN m.cpu.usage = U
    BY <2>1 DEF CpuShape, CpuInv, CpuIs
  <2>5. CountsInv(U, tracker, runs')
    <3>1. CASE cpu.prev # Null
      BY <2>3, <3>1 DEF CpuInv
    <3>2. CASE cpu.prev = Null
      <4>1. runs' = [i \in U |-> 0]
        BY <2>2, <3>2
      <4>2. DOMAIN tracker = {}
        BY <3>2 DEF CpuInv
      <4>. QED  BY <4>1, <4>2, <2>3 DEF CountsInv
    <3>. QED  BY <3>1, <3>2
  <2>6. SaturationEarned'
    BY <2>1 DEF SaturationEarned, CpuIs
  <2>. QED  BY <1>2, <2>1, <2>4, <2>5, <2>6, CpuKept DEF CpuIs, CpuInv
<1>3. CASE "cpu" \in conf.groups /\ t # Null /\ cpu.prev = Null
  <2> DEFINE V == IF t.cores # {} THEN [i \in t.cores |-> Null] ELSE Quiet
  <2>1. CpuIs(m.cpu, FALSE, t, V, {}, Null) /\ m.tracker = <<>>
    <3>1. cpu.total = Null /\ cpu.usage = Quiet
      BY <1>3, <1>a DEF CpuInv, CpuShape
    <3>2. m.cpu = apply_baseline(on, t) /\ m.tracker = <<>>
      BY <1>3 DEF measure_cpu
    <3> HIDE DEF on, Quiet
    <3>. QED  BY <1>b, <3>1, <3>2, BaselineIs DEF CpuIs
  <2>2. runs' = [i \in DOMAIN V |-> 0]
    BY <1>3, <2>1 DEF Runs, CpuIs
  <2>3. CpuShape(m.cpu) /\ DOMAIN m.cpu.usage = DOMAIN V
    BY <1>3, <2>1 DEF CpuShape, CpuIs
  <2>5. CountsInv(DOMAIN V, <<>>, runs')
    BY <2>2 DEF CountsInv
  <2>4. SaturationEarned'
    BY <2>1 DEF SaturationEarned, CpuIs
  <2>. QED  BY <1>3, <2>1, <2>3, <2>4, <2>5, CpuKept DEF CpuIs
<1>4. CASE "cpu" \in conf.groups /\ t # Null /\ cpu.prev # Null /\ t.cores = {}
  <2>1. CpuIs(m.cpu, FALSE, t, Quiet, {}, IF t.total THEN at ELSE Null)
    <3> DEFINE bare == [clear_cpu_values(on) EXCEPT !.prev = t]
    <3>1. m.cpu = [bare EXCEPT !.total = IF t.total THEN at ELSE Null,
                     !.rates_collected = bare.rates_collected \/ (t.switches /\ cpu.prev.switches),
                     !.switches = IF t.switches /\ cpu.prev.switches THEN at ELSE Null]
      BY <1>4 DEF measure_cpu
    <3>2. CpuIs(bare, FALSE, t, Quiet, {}, Null)
      BY <1>e
    <3> HIDE DEF bare
    <3>. QED  BY <1>f, <3>1, <3>2 DEF CpuIs
  <2>2. m.tracker = tracker
    BY <1>4 DEF measure_cpu
  <2>3. runs' = runs
    <3>1. DOMAIN m.cpu.usage = U /\ \A i \in U : m.cpu.usage[i] = Null
      BY <2>1 DEF CpuIs
    <3>2. runs' = [i \in U |-> runs[i]]
      BY <1>0, <1>4, <1>a, <2>1, <3>1 DEF Runs, CpuIs
    <3>. QED  BY <1>a, <3>2
  <2>4. CpuShape(m.cpu) /\ DOMAIN m.cpu.usage = U
    BY <1>4, <2>1 DEF CpuShape, CpuIs
  <2>5. SaturationEarned'
    BY <2>1 DEF SaturationEarned, CpuIs
  <2>. QED  BY <1>4, <2>1, <2>2, <2>3, <2>4, <2>5, CpuKept DEF CpuInv, CpuIs
<1>5. CASE "cpu" \in conf.groups /\ t # Null /\ cpu.prev # Null /\ t.cores # {}
  <2> DEFINE V == compute_core_usages(cpu.prev, t)
             n == saturation_update(tracker, V, conf.sustain)
             sat == {i \in t.cores : n[i] >= conf.sustain}
  <2>1. CpuIs(m.cpu, FALSE, t, V, sat, IF t.total THEN at ELSE Null)
    <3> DEFINE bare == [clear_cpu_values(on) EXCEPT !.prev = t]
               f1 == [bare EXCEPT !.usage = V]
               f2 == [f1 EXCEPT !.cores_collected = TRUE]
               full == [f2 EXCEPT !.saturated = sat]
    <3>1. m.cpu = [full EXCEPT !.total = IF t.total THEN at ELSE Null,
                     !.rates_collected = full.rates_collected \/ (t.switches /\ cpu.prev.switches),
                     !.switches = IF t.switches /\ cpu.prev.switches THEN at ELSE Null]
      BY <1>5 DEF measure_cpu
    <3>2. CpuIs(bare, FALSE, t, Quiet, {}, Null)
      BY <1>e
    <3> HIDE DEF bare, V, sat, Quiet
    <3>3. CpuIs(f1, FALSE, t, V, {}, Null)
      BY <3>2, CpuSet DEF CpuIs
    <3>4. CpuIs(f2, FALSE, t, V, {}, Null)
      <4> HIDE DEF f1
      <4>. QED  BY <3>3, CpuSet DEF CpuIs
    <3>5. CpuIs(full, FALSE, t, V, sat, Null)
      <4> HIDE DEF f2
      <4>. QED  BY <3>4, CpuSet DEF CpuIs
    <3> HIDE DEF full
    <3>. QED  BY <1>f, <3>1, <3>5 DEF CpuIs
  <2>2. m.tracker = n
    BY <1>5 DEF measure_cpu
  <2> HIDE DEF sat
  <2>3. /\ DOMAIN V = t.cores
        /\ n \in [t.cores -> Nat] /\ runs' \in [t.cores -> Nat]
        /\ \A i \in t.cores : Follows(n[i], runs'[i])
    <3>1. m.cpu.usage = V /\ m.cpu.disabled = FALSE
      BY <2>1 DEF CpuIs
    <3> HIDE DEF V
    <3>2. t \in Times
      BY <1>5
    <3>. QED  BY <1>5, <3>1, <3>2, CoresFollow DEF V
  <2>4. V = [i \in DOMAIN V |-> V[i]]
    BY DEF compute_core_usages
  <2>5. CpuShape(m.cpu) /\ DOMAIN m.cpu.usage = t.cores
    <3> HIDE DEF V, n
    <3>. QED  BY <1>5, <2>1, <2>3, <2>4 DEF CpuShape, CpuIs
  <2>7. CountsInv(t.cores, n, runs')
    <3> HIDE DEF n
    <3>. QED  BY <2>3 DEF CountsInv
  <2>6. SaturationEarned'
    <3>1. ASSUME NEW i \in t.cores
          PROVE  /\ n[i] >= conf.sustain => runs'[i] >= conf.sustain
                 /\ sets = 0 /\ runs'[i] >= conf.sustain => n[i] >= conf.sustain
      <4> HIDE DEF n
      <4>. QED  BY <1>0, <2>3, <3>1 DEF Follows
    <3> HIDE DEF V, n
    <3>. QED  BY <2>1, <2>3, <3>1 DEF SaturationEarned, CpuIs, sat
  <2>8. cpu'.disabled = FALSE /\ cpu'.total = (IF t.total THEN at ELSE Null)
    <3> HIDE DEF V, n
    <3>. QED  BY <2>1 DEF CpuIs
  <2>9. CpuInv'
    <3> HIDE DEF V, n
    <3>. QED  BY <1>5, <2>1, <2>2, <2>5, <2>7, CpuKept DEF CpuIs
  <2> HIDE DEF V, n
  <2>. QED  BY <1>5, <2>6, <2>8, <2>9
<1>. QED
  BY <1>1, <1>2, <1>3, <1>4, <1>5

(* The alarm and the log of one subject after one evaluation. *)
AlarmStep(state, l, f, t) ==
  /\ l \in LogRecs
  /\ l.open <=> state # Null
  /\ state # Null => Counted(state, l, t)
  /\ f = TRUE => l.open
  /\ f \in {FALSE, Gone} => ~ l.open
  /\ l.record = "ongoing" =>
       /\ conf.repeat > 0
       /\ (l.last - l.since) \div conf.repeat > (l.prior - l.since) \div conf.repeat

LEMMA Evaluated ==
    ASSUME ConfInv, AlarmInv, NEW t \in Nat, clock <= t,
           NEW s \in Subjects, NEW f \in BOOLEAN \cup {Null, Gone},
           NEW e, e = evaluate(s, f, t), NEW a, a = alarms[s],
           NEW b, b = logbook[s], NEW l, l = Logged(b, e.record, f = Gone, t)
    PROVE  AlarmStep(e.state, l, f, t)
<1>0. /\ Gone \notin BOOLEAN /\ Null \notin BOOLEAN /\ Null # Gone /\ Null \notin AlarmRecs
      /\ conf.repeat \in Nat
  BY MetricsAssumption DEF AlarmRecs, ConfInv, Configs
<1>1. b \in LogRecs /\ (b.open <=> s \in DOMAIN alarms)
  BY DEF AlarmInv
<1>2. s \in DOMAIN alarms => Counted(a, b, clock)
  BY DEF AlarmInv
<1>3. b.open \in BOOLEAN /\ b.since \in Nat /\ b.prior \in Nat /\ b.last \in Nat
  BY <1>1 DEF LogRecs
<1>4. CASE f = Gone
  <2>1. e = [state |-> Null, record |-> "none"]
    BY <1>0, <1>4 DEF evaluate
  <2>2. l = [b EXCEPT !.open = b.open /\ ~(f = Gone), !.record = "none"]
    BY <2>1 DEF Logged
  <2>3. l \in LogRecs /\ ~ l.open /\ l.record = "none"
    BY <1>1, <1>4, <2>2 DEF LogRecs
  <2>4. e.state = Null
    BY <2>1
  <2>5. f # TRUE
    BY <1>0, <1>4, Zenon
  <2>. QED  BY <2>3, <2>4, <2>5 DEF AlarmStep
<1>5. CASE f = Null
  <2>1. e = [state |-> IF s \in DOMAIN alarms THEN a ELSE Null, record |-> "none"]
    BY <1>0, <1>5 DEF evaluate
  <2>2. l = [b EXCEPT !.open = b.open /\ ~(f = Gone), !.record = "none"]
    BY <2>1 DEF Logged
  <2>3. l \in LogRecs /\ l.open = b.open /\ l.record = "none" /\ l.since = b.since /\ l.last = b.last
    BY <1>0, <1>1, <1>5, <2>2 DEF LogRecs
  <2>6. f # TRUE /\ f \notin {FALSE, Gone}
    BY <1>0, <1>5
  <2>4. CASE s \in DOMAIN alarms
    <3>1. a \in AlarmRecs /\ e.state = a
      BY <1>2, <2>1, <2>4 DEF Counted
    <3>2. Counted(a, l, t)
      BY <1>2, <2>3, <2>4, <1>3 DEF Counted, ConfInv
    <3>3. e.state # Null /\ l.open
      BY <1>0, <1>1, <2>3, <2>4, <3>1
    <3>. QED  BY <2>3, <2>6, <3>1, <3>2, <3>3 DEF AlarmStep
  <2>5. CASE s \notin DOMAIN alarms
    <3>1. e.state = Null /\ ~ l.open
      BY <1>1, <2>1, <2>3, <2>5
    <3>. QED  BY <2>3, <2>6, <3>1 DEF AlarmStep
  <2>. QED  BY <2>4, <2>5
<1>6. CASE f = FALSE
  <2>1. e = [state |-> Null, record |-> IF s \in DOMAIN alarms THEN "recovered" ELSE "none"]
    BY <1>0, <1>6 DEF evaluate
  <2>3. l \in LogRecs /\ ~ l.open /\ l.record # "ongoing"
    <3>1. CASE s \in DOMAIN alarms
      <4>1. l = [b EXCEPT !.open = FALSE, !.record = "recovered"]
        BY <2>1, <3>1 DEF Logged
      <4>. QED  BY <1>1, <4>1 DEF LogRecs
    <3>2. CASE s \notin DOMAIN alarms
      <4>1. l = [b EXCEPT !.open = b.open /\ ~(f = Gone), !.record = "none"]
        BY <2>1, <3>2 DEF Logged
      <4>. QED  BY <1>1, <3>2, <4>1 DEF LogRecs
    <3>. QED  BY <3>1, <3>2
  <2>4. e.state = Null
    BY <2>1
  <2>5. f # TRUE
    BY <1>6, Zenon
  <2>. QED  BY <2>3, <2>4, <2>5 DEF AlarmStep
<1>7. CASE f = TRUE /\ s \notin DOMAIN alarms
  <2>1. e = [state |-> [since |-> t, milestone |-> 0, every |-> conf.repeat], record |-> "entered"]
    BY <1>0, <1>7 DEF evaluate, transition
  <2>2. l = [open |-> TRUE, since |-> t, prior |-> t, last |-> t, record |-> "entered"]
    BY <2>1 DEF Logged
  <2>3. /\ e.state \in AlarmRecs /\ e.state # Null
        /\ l \in LogRecs /\ l.open /\ l.record # "ongoing"
    <3>1. [since |-> t, milestone |-> 0, every |-> conf.repeat] \in AlarmRecs
      BY <1>0 DEF AlarmRecs
    <3>2. e.state = [since |-> t, milestone |-> 0, every |-> conf.repeat]
      BY <2>1
    <3>3. l \in LogRecs
      <4>1. [open |-> TRUE, since |-> t, prior |-> t, last |-> t, record |-> "entered"] \in LogRecs
        BY DEF LogRecs
      <4>. QED  BY <2>2, <4>1
    <3>4. l.open /\ l.record # "ongoing"
      BY <2>2
    <3>. QED  BY <1>0, <3>1, <3>2, <3>3, <3>4
  <2>5. f \notin {FALSE, Gone}
    BY <1>0, <1>7
  <2>4. Counted(e.state, l, t)
    <3>1. /\ e.state.since = t /\ e.state.milestone = 0 /\ l.since = t /\ l.last = t
          /\ e.state.every = conf.repeat
      BY <2>1, <2>2
    <3>2. conf.repeat > 0 => (t - t) \div conf.repeat = 0
      BY <1>0
    <3>. QED  BY <2>3, <3>1, <3>2 DEF Counted
  <2>. QED  BY <2>3, <2>4, <2>5 DEF AlarmStep
<1>8. CASE f = TRUE /\ s \in DOMAIN alarms
  <2> DEFINE again == repeat_due(a, t, conf.repeat)
             n == (t - a.since) \div conf.repeat
  <2>0. f \notin {FALSE, Gone}
    BY <1>0, <1>8
  <2>1. e = [state |-> again.next, record |-> IF again.due THEN "ongoing" ELSE "none"]
    BY <1>0, <1>8 DEF evaluate
  <2>2. /\ a \in AlarmRecs /\ a.since = b.since /\ b.since <= b.last /\ b.last <= t
        /\ a.every > 0 => (b.last - b.since) \div a.every <= a.milestone
    BY <1>2, <1>3, <1>8 DEF Counted, ConfInv
  <2>3. a.since \in Nat /\ a.milestone \in Nat /\ a.every \in Nat /\ a.since <= t
    BY <1>3, <2>2 DEF AlarmRecs
  <2>4. conf.repeat > 0 => n \in Nat /\ (b.last - b.since) \div conf.repeat <= n
    <3>1. ASSUME conf.repeat > 0 PROVE n \in Nat /\ (b.last - b.since) \div conf.repeat <= n
      <4>1. b.last - b.since \in Nat /\ t - a.since \in Nat /\ b.last - b.since <= t - a.since
        BY <1>3, <2>2, <2>3
      <4>2. conf.repeat \in Nat \ {0}
        BY <1>0, <3>1
      <4>3. \A x, y \in Nat, k \in Nat \ {0} : x <= y => x \div k \in Nat /\ x \div k <= y \div k
        BY DivGrows
      <4>4. (t - a.since) \div conf.repeat \in Nat
        BY <4>1, <4>2, <4>3
      <4>5. (b.last - b.since) \div conf.repeat <= (t - a.since) \div conf.repeat
        BY <4>1, <4>2, <4>3
      <4>. QED  BY <4>4, <4>5
    <3>. QED  BY <3>1
  <2>5. ASSUME again.due = FALSE, again.next \in AlarmRecs, again.next.since = a.since,
               again.next.every > 0 =>
                 (b.last - b.since) \div again.next.every <= again.next.milestone
        PROVE  AlarmStep(e.state, l, f, t)
    <3>1. e.state = again.next /\ e.record = "none"
      BY <2>1, <2>5
    <3>2. l = [b EXCEPT !.open = b.open /\ ~(f = Gone), !.record = "none"]
      BY <3>1 DEF Logged
    <3>3. l \in LogRecs /\ l.open /\ l.record = "none" /\ l.since = b.since /\ l.last = b.last
      BY <1>0, <1>1, <1>8, <3>2 DEF LogRecs
    <3> HIDE DEF again
    <3>4. Counted(again.next, l, t)
      BY <2>2, <2>5, <3>3 DEF Counted
    <3>5. again.next # Null
      BY <1>0, <2>5
    <3>. QED  BY <2>0, <3>1, <3>3, <3>4, <3>5 DEF AlarmStep
  <2>6. CASE conf.repeat <= 0
    <3>1. again = [due |-> FALSE, next |-> a]
      BY <2>6 DEF repeat_due
    <3>2. again.due = FALSE /\ again.next = a
      BY <3>1
    <3> HIDE DEF again
    <3>. QED  BY <2>2, <2>5, <3>2
  <2>7. CASE conf.repeat > 0 /\ conf.repeat # a.every
    <3>1. again = [due |-> FALSE, next |-> [a EXCEPT !.every = conf.repeat, !.milestone = n]]
      BY <1>0, <2>7 DEF repeat_due
    <3>2. /\ again.next \in AlarmRecs /\ again.next.since = a.since /\ again.next.every = conf.repeat
          /\ again.next.milestone = n /\ again.due = FALSE
      <4>1. n \in Nat
        BY <2>4, <2>7
      <4>2. again.due = FALSE /\ again.next = [a EXCEPT !.every = conf.repeat, !.milestone = n]
        BY <3>1
      <4> HIDE DEF n, again
      <4>. QED  BY <1>0, <2>2, <4>1, <4>2 DEF AlarmRecs
    <3> HIDE DEF again, n
    <3>. QED  BY <2>4, <2>5, <2>7, <3>2
  <2>8. CASE conf.repeat > 0 /\ conf.repeat = a.every /\ n <= a.milestone
    <3>1. again = [due |-> FALSE, next |-> a]
      BY <1>0, <2>8 DEF repeat_due
    <3>2. again.due = FALSE /\ again.next = a
      BY <3>1
    <3> HIDE DEF again
    <3>. QED  BY <2>2, <2>5, <3>2
  <2>9. CASE conf.repeat > 0 /\ conf.repeat = a.every /\ ~(n <= a.milestone)
    <3>1. again = [due |-> TRUE, next |-> [a EXCEPT !.milestone = n]]
      BY <1>0, <2>9 DEF repeat_due
    <3>2. /\ again.next \in AlarmRecs /\ again.next.since = a.since /\ again.next.every = conf.repeat
          /\ again.next.milestone = n /\ again.due = TRUE
      <4>1. n \in Nat
        BY <2>4, <2>9
      <4> HIDE DEF n
      <4>. QED  BY <1>0, <2>2, <2>9, <3>1, <4>1 DEF AlarmRecs
    <3>3. e.state = again.next /\ e.record = "ongoing"
      BY <2>1, <3>2
    <3>4. l = [b EXCEPT !.prior = b.last, !.last = t, !.record = "ongoing"]
      BY <3>3 DEF Logged
    <3>5. /\ l \in LogRecs /\ l.open = b.open /\ l.record = "ongoing" /\ l.since = b.since
          /\ l.prior = b.last /\ l.last = t
      BY <1>1, <3>4 DEF LogRecs
    <3>6. (b.last - b.since) \div conf.repeat <= a.milestone
      BY <2>2, <2>9
    <3>7. n = (t - b.since) \div conf.repeat
      BY <2>2
    <3>8. n > (b.last - b.since) \div conf.repeat
      <4>1. (b.last - b.since) \div conf.repeat \in Int
        BY <1>3, <2>9, <1>0
      <4>. QED  BY <2>3, <2>4, <2>9, <3>6, <4>1
    <3>9. Counted(e.state, l, t)
      <4>1. b.since <= t
        BY <2>2, <2>3
      <4>2. n \in Nat
        BY <2>4, <2>9
      <4> HIDE DEF again, n
      <4>. QED  BY <2>2, <3>2, <3>3, <3>5, <3>7, <4>1, <4>2 DEF Counted
    <3> HIDE DEF again, n
    <3>10. e.state # Null /\ l.open
      BY <1>0, <1>1, <1>8, <3>2, <3>3, <3>5
    <3>11. (l.last - l.since) \div conf.repeat > (l.prior - l.since) \div conf.repeat
      BY <3>5, <3>7, <3>8
    <3>. QED  BY <2>0, <2>9, <3>5, <3>9, <3>10, <3>11 DEF AlarmStep
  <2>. QED  BY <1>0, <2>6, <2>7, <2>8, <2>9, <2>3
<1>. QED
  BY <1>4, <1>5, <1>6, <1>7, <1>8

(* The alarms and the log after an evaluation of all subjects. *)
EvaluationStep(t, found, out) ==
  /\ t \in Nat /\ clock <= t /\ clock' = t /\ raw'.conf = conf
  /\ \A s \in Subjects :
       /\ found[s] \in BOOLEAN \cup {Null, Gone}
       /\ out[s] = evaluate(s, found[s], t)
       /\ logbook'[s] = Logged(logbook[s], out[s].record, found[s] = Gone, t)
  /\ DOMAIN alarms' = {s \in Subjects : out[s].state # Null}
  /\ \A s \in DOMAIN alarms' : alarms'[s] = out[s].state

LEMMA AlarmsKept ==
    ASSUME ConfInv, AlarmInv, NEW t, NEW found, NEW out, EvaluationStep(t, found, out)
    PROVE  /\ AlarmInv' /\ RemindersSpaced'
           /\ \A s \in Subjects :
                /\ logbook'[s].open <=> s \in DOMAIN alarms'
                /\ found[s] = TRUE => logbook'[s].open
                /\ found[s] \in {FALSE, Gone} => ~ logbook'[s].open
<1>1. ASSUME NEW s \in Subjects
      PROVE  AlarmStep(out[s].state, logbook'[s], found[s], t)
  BY Evaluated DEF EvaluationStep
<1>2. AlarmInv'
  <2>1. \A s \in Subjects : logbook'[s] \in LogRecs /\ (logbook'[s].open <=> s \in DOMAIN alarms')
    BY <1>1 DEF AlarmStep, EvaluationStep
  <2>2. \A s \in DOMAIN alarms' : Counted(alarms'[s], logbook'[s], t)
    BY <1>1 DEF AlarmStep, EvaluationStep
  <2>3. DOMAIN alarms' \subseteq Subjects
    BY DEF EvaluationStep
  <2>. QED  BY <2>1, <2>2, <2>3 DEF AlarmInv, Counted, EvaluationStep
<1>3. RemindersSpaced'
  BY <1>1 DEF RemindersSpaced, AlarmStep, EvaluationStep
<1>4. \A s \in Subjects :
        /\ logbook'[s].open <=> s \in DOMAIN alarms'
        /\ found[s] = TRUE => logbook'[s].open
        /\ found[s] \in {FALSE, Gone} => ~ logbook'[s].open
  BY <1>1 DEF AlarmStep, EvaluationStep
<1>. QED
  BY <1>2, <1>3, <1>4

(* What the tick reads of a domain whose group is on. *)
Read(r, d) == IF d \in conf.groups \cup {"shm_dir"} THEN Reading(r, d) ELSE Null

LEMMA RefreshOn ==
    ASSUME NEW g, IsGauge(g), NEW v
    PROVE  LET n == refresh_gauge(g, TRUE, v) IN IsGauge(n) /\ n.value = v
BY DEF refresh_gauge, IsGauge

LEMMA GaugesRead ==
    ASSUME ConfInv, MetricsTypes, NEW r, NEW g,
           g = [d \in Gauges |-> IF d = "load" THEN refresh_load_average(r) ELSE refresh_metrics(d, r)]
    PROVE  /\ \A d \in Gauges : IsGauge(g[d])
           /\ \A d \in Gauges \ {"load"} :
                /\ g[d].disabled <=> d \notin conf.groups \cup {"shm_dir"}
                /\ Shown(g[d]) = Read(r, d)
                /\ ~ g[d].disabled => g[d].value = Read(r, d)
                /\ ~ g[d].disabled /\ Read(r, d) # Null => g[d].supported = (Read(r, d) # Nothing)
           /\ "cpu" \in conf.groups => g["load"].value = Reading(r, "load")
<1>1. conf.groups \subseteq Groups
  BY DEF ConfInv, Configs
<1>2. ASSUME NEW d \in Gauges \ {"load"}
      PROVE  /\ IsGauge(g[d])
             /\ g[d].disabled <=> d \notin conf.groups \cup {"shm_dir"}
             /\ Shown(g[d]) = Read(r, d)
             /\ ~ g[d].disabled => g[d].value = Read(r, d)
             /\ ~ g[d].disabled /\ Read(r, d) # Null => g[d].supported = (Read(r, d) # Nothing)
  <2> DEFINE e == group_enabled(d)
  <2>1. e <=> d \in conf.groups \cup {"shm_dir"}
    BY <1>1 DEF group_enabled, Groups, Gauges, Rates
  <2>2. g[d] = refresh_gauge(gauge[d], e, Reading(r, d))
    BY DEF refresh_metrics
  <2>3. IsGauge(gauge[d]) /\ e \in BOOLEAN
    BY DEF MetricsTypes, group_enabled
  <2> HIDE DEF e
  <2>. QED  BY <2>1, <2>2, <2>3, RefreshGauge DEF Read
<1>3. /\ IsGauge(g["load"])
      /\ "cpu" \in conf.groups => g["load"].value = Reading(r, "load")
  <2>1. "load" \in Gauges /\ g["load"] = refresh_load_average(r) /\ IsGauge(gauge["load"])
    BY DEF Gauges, MetricsTypes
  <2>2. CASE "cpu" \in conf.groups
    <3>1. g["load"] = refresh_gauge(gauge["load"], TRUE, Reading(r, "load"))
      BY <2>1, <2>2 DEF refresh_load_average
    <3>. QED  BY <2>1, <3>1, RefreshOn
  <2>3. CASE "cpu" \notin conf.groups
    <3>1. g["load"] = [gauge["load"] EXCEPT !.value = Null]
      BY <2>1, <2>3 DEF refresh_load_average
    <3>. QED  BY <2>1, <2>3, <3>1 DEF IsGauge
  <2>. QED  BY <2>2, <2>3
<1>. QED
  BY <1>2, <1>3

(* What the thresholds find is what was read. *)
LEMMA InputsFollow ==
    ASSUME ConfInv, MetricsTypes, NEW r, NEW g,
           g = [d \in Gauges |-> IF d = "load" THEN refresh_load_average(r) ELSE refresh_metrics(d, r)],
           NEW found, found = make_threshold_inputs(g)
    PROVE  /\ \A s \in Subjects : found[s] \in BOOLEAN \cup {Null, Gone}
           /\ \A d \in {"memory", "swap"} :
                /\ Read(r, d) \in Levels => found[<<d>>] = (Read(r, d) >= conf.level)
                /\ d \notin conf.groups => found[<<d>>] = Gone
           /\ \A m \in Mounts :
                LET v == Read(r, "volumes")
                IN  /\ v # Null /\ m \in DOMAIN v /\ v[m] \in Levels =>
                         found[<<"volume", m>>] = (v[m] < conf.level)
                    /\ "volumes" \notin conf.groups => found[<<"volume", m>>] = Gone
<1> DEFINE usage(d) == IF g[d].value \in Levels THEN g[d].value >= conf.level ELSE Null
           vols == g["volumes"]
<1>0. /\ \A d \in Gauges \ {"load"} :
           /\ IsGauge(g[d])
           /\ g[d].disabled <=> d \notin conf.groups \cup {"shm_dir"}
           /\ ~ g[d].disabled => g[d].value = Read(r, d)
           /\ ~ g[d].disabled /\ Read(r, d) # Null => g[d].supported = (Read(r, d) # Nothing)
      /\ Null \notin Levels /\ Nothing \notin Levels /\ Levels \subseteq Nat /\ conf.level \in Nat
  <2>1. /\ Null \notin Levels /\ Nothing \notin Levels /\ Levels \subseteq Nat /\ conf.level \in Nat
    BY MetricsAssumption DEF Levels, ConfInv, Configs
  <2>. QED  BY <2>1, GaugesRead
<1>1. found[<<"memory">>] = IF g["memory"].disabled THEN Gone ELSE usage("memory")
  BY DEF make_threshold_inputs, Subjects
<1>2. found[<<"swap">>] = IF g["swap"].disabled \/ ~ g["swap"].supported THEN Gone ELSE usage("swap")
  BY DEF make_threshold_inputs, Subjects
<1>3. found[<<"cpu">>] = IF cpu.disabled THEN Gone
                         ELSE IF \E i \in DOMAIN cpu.usage : cpu.usage[i] # Null
                         THEN cpu.saturated # {} ELSE Null
  BY DEF make_threshold_inputs, Subjects
<1>4. ASSUME NEW m \in Mounts
      PROVE  found[<<"volume", m>>]
               = IF vols.disabled THEN Gone
                 ELSE IF vols.value = Null THEN Null
                 ELSE IF m \notin DOMAIN vols.value THEN Gone
                 ELSE IF vols.value[m] \in Levels THEN vols.value[m] < conf.level ELSE Null
  BY DEF make_threshold_inputs, Subjects
<1>5. /\ found[<<"memory">>] \in BOOLEAN \cup {Null, Gone}
      /\ Read(r, "memory") \in Levels => found[<<"memory">>] = (Read(r, "memory") >= conf.level)
      /\ "memory" \notin conf.groups => found[<<"memory">>] = Gone
  <2>1. "memory" \in Gauges \ {"load"}
    BY DEF Gauges
  <2>2. "memory" \notin conf.groups => Read(r, "memory") = Null
    BY DEF Read
  <2>4. CASE g["memory"].disabled
    <3>1. found[<<"memory">>] = Gone
      BY <1>1, <2>4
    <3>2. Read(r, "memory") \notin Levels
      BY <1>0, <2>1, <2>2, <2>4
    <3>. QED  BY <3>1, <3>2
  <2>5. CASE ~ g["memory"].disabled /\ Read(r, "memory") \in Levels
    <3>1. g["memory"].value = Read(r, "memory")
      BY <1>0, <2>1, <2>5
    <3>2. found[<<"memory">>] = (Read(r, "memory") >= conf.level)
      BY <1>1, <2>5, <3>1, Zenon
    <3>3. (Read(r, "memory") >= conf.level) \in BOOLEAN
      OBVIOUS
    <3>4. "memory" \in conf.groups
      BY <1>0, <2>1, <2>5
    <3>. QED  BY <3>2, <3>3, <3>4, Zenon
  <2>6. CASE ~ g["memory"].disabled /\ Read(r, "memory") \notin Levels
    <3>1. "memory" \in conf.groups
      BY <1>0, <2>1, <2>6
    <3>2. g["memory"].value = Read(r, "memory")
      BY <1>0, <2>1, <2>6
    <3>. QED  BY <1>1, <2>6, <3>1, <3>2
  <2>. QED  BY <2>4, <2>5, <2>6
<1>6. /\ found[<<"swap">>] \in BOOLEAN \cup {Null, Gone}
      /\ Read(r, "swap") \in Levels => found[<<"swap">>] = (Read(r, "swap") >= conf.level)
      /\ "swap" \notin conf.groups => found[<<"swap">>] = Gone
  <2>1. "swap" \in Gauges \ {"load"}
    BY DEF Gauges
  <2>2. "swap" \notin conf.groups => Read(r, "swap") = Null
    BY DEF Read
  <2>3. Read(r, "swap") \in Levels => Read(r, "swap") # Null /\ Read(r, "swap") # Nothing
    BY <1>0
  <2>4. CASE g["swap"].disabled
    <3>1. found[<<"swap">>] = Gone
      BY <1>2, <2>4
    <3>2. Read(r, "swap") \notin Levels
      BY <1>0, <2>1, <2>2, <2>4
    <3>. QED  BY <3>1, <3>2
  <2>5. CASE ~ g["swap"].disabled /\ Read(r, "swap") \in Levels
    <3>1. g["swap"].value = Read(r, "swap") /\ g["swap"].supported
      BY <1>0, <2>1, <2>5, <2>3
    <3>2. found[<<"swap">>] = (Read(r, "swap") >= conf.level)
      BY <1>2, <2>5, <3>1, Zenon
    <3>3. (Read(r, "swap") >= conf.level) \in BOOLEAN
      OBVIOUS
    <3>4. "swap" \in conf.groups
      BY <1>0, <2>1, <2>5
    <3>. QED  BY <3>2, <3>3, <3>4, Zenon
  <2>6. CASE ~ g["swap"].disabled /\ Read(r, "swap") \notin Levels
    <3>1. "swap" \in conf.groups
      BY <1>0, <2>1, <2>6
    <3>2. g["swap"].value = Read(r, "swap")
      BY <1>0, <2>1, <2>6
    <3>. QED  BY <1>2, <2>6, <3>1, <3>2
  <2>. QED  BY <2>4, <2>5, <2>6
<1>7. found[<<"cpu">>] \in BOOLEAN \cup {Null, Gone}
  BY <1>3
<1>8. ASSUME NEW m \in Mounts, NEW v, v = Read(r, "volumes")
      PROVE  /\ found[<<"volume", m>>] \in BOOLEAN \cup {Null, Gone}
             /\ v # Null /\ m \in DOMAIN v /\ v[m] \in Levels =>
                  found[<<"volume", m>>] = (v[m] < conf.level)
             /\ "volumes" \notin conf.groups => found[<<"volume", m>>] = Gone
  <2>1. "volumes" \in Gauges \ {"load"}
    BY DEF Gauges
  <2>2. "volumes" \notin conf.groups => v = Null
    BY <1>8 DEF Read
  <2>3. vols.disabled <=> "volumes" \notin conf.groups
    BY <1>0, <2>1
  <2>4. ~ vols.disabled => vols.value = v
    BY <1>0, <1>8, <2>1
  <2> HIDE DEF vols
  <2>5. CASE vols.disabled
    <3>1. found[<<"volume", m>>] = Gone
      BY <1>4, <2>5
    <3>. QED  BY <2>2, <2>3, <2>5, <3>1
  <2>6. CASE ~ vols.disabled /\ v # Null /\ m \in DOMAIN v /\ v[m] \in Levels
    <3>1. found[<<"volume", m>>] = (v[m] < conf.level)
      BY <1>4, <2>4, <2>6, Zenon
    <3>2. (v[m] < conf.level) \in BOOLEAN
      OBVIOUS
    <3>. QED  BY <2>3, <2>6, <3>1, <3>2, Zenon
  <2>7. CASE ~ vols.disabled /\ ~(v # Null /\ m \in DOMAIN v /\ v[m] \in Levels)
    <3>1. found[<<"volume", m>>] \in {Null, Gone}
      BY <1>4, <2>4, <2>7
    <3>. QED  BY <2>3, <2>7, <3>1
  <2>. QED  BY <2>5, <2>6, <2>7
<1>9. ASSUME NEW s \in Subjects PROVE found[s] \in BOOLEAN \cup {Null, Gone}
  <2>1. s \in {<<"memory">>, <<"swap">>, <<"cpu">>} \/ \E m \in Mounts : s = <<"volume", m>>
    BY DEF Subjects
  <2> HIDE DEF usage, vols
  <2>. QED  BY <1>5, <1>6, <1>7, <1>8, <2>1
<1>. QED
  <2>1. \A m \in Mounts :
          LET v == Read(r, "volumes")
          IN  /\ v # Null /\ m \in DOMAIN v /\ v[m] \in Levels =>
                   found[<<"volume", m>>] = (v[m] < conf.level)
              /\ "volumes" \notin conf.groups => found[<<"volume", m>>] = Gone
    BY <1>8
  <2>. QED  BY <1>5, <1>6, <1>9, <2>1

(* A tick keeps what it has to keep, whenever it comes. *)
LEMMA MeasureKeeps ==
    ASSUME ConfInv, MetricsTypes, CpuInv, AlarmInv, NEW t \in Nat, clock <= t,
           NEW r \in Collected(kind), measure_once(t, r)
    PROVE  /\ MetricsTypes' /\ CpuInv' /\ AlarmInv' /\ SnapInv'
           /\ LogFollowsReadings' /\ RemindersSpaced' /\ SaturationEarned'
<1> DEFINE g     == [d \in Gauges |-> IF d = "load" THEN refresh_load_average(r) ELSE refresh_metrics(d, r)]
           found == make_threshold_inputs(g)
           out   == [s \in Subjects |-> evaluate(s, found[s], t)]
           m     == measure_cpu(Reading(r, "cpu"), t)
<1>1. /\ clock' = t /\ gauge' = g
      /\ rate' = [d \in Rates |-> IF d = "disk_io" THEN refresh_disk_io(r, t) ELSE refresh_network(r, t)]
      /\ alarms' = Known([s \in Subjects |-> out[s].state])
      /\ cpu' = m.cpu /\ tracker' = m.tracker
      /\ raw' = [reading |-> r, conf |-> conf]
      /\ logbook' = [s \in Subjects |-> Logged(logbook[s], out[s].record, found[s] = Gone, t)]
      /\ growth' = [d \in Rates |-> Growth(growth[d], rate[d], rate'[d], group_enabled(d), Reading(r, d))]
      /\ runs' = Runs(runs, m.cpu)
      /\ UNCHANGED <<kind, sets, conf>>
  BY DEF measure_once
<1> HIDE DEF g, found, out, m
<1>2. raw'.conf = conf /\ raw'.reading = r
  BY <1>1
<1>3. \A d : Was(d)' = Read(r, d)
  BY <1>1, <1>2 DEF Was, Read
<1>4. conf.groups \subseteq Groups /\ kind \in Kinds
  BY DEF ConfInv, Configs
<1>5. /\ Reading(r, "cpu") \in {Null} \cup Times
      /\ \A d \in Rates : Reading(r, d) = Null \/
           \E ds \in SUBSET Devices : Reading(r, d) \in [ds -> Nat]
  BY <1>4, ReadingsOf
<1>6. /\ \A d \in Gauges : IsGauge(g[d])
      /\ \A d \in Gauges \ {"load"} :
           /\ g[d].disabled <=> d \notin conf.groups \cup {"shm_dir"}
           /\ Shown(g[d]) = Read(r, d)
      /\ "cpu" \in conf.groups => g["load"].value = Reading(r, "load")
  BY GaugesRead DEF g
<1>7. ASSUME NEW d \in Rates
      PROVE  /\ RateInv(rate'[d], growth'[d])
             /\ rate'[d].disabled <=> d \notin conf.groups
             /\ Shown(rate'[d]) = Null <=> Read(r, d) = Null
             /\ Read(r, d) # Null =>
                  \E ds \in SUBSET Devices : rate'[d].value \in [ds -> Nat \cup {Null}]
  <2> DEFINE e == group_enabled(d)
  <2>1. e <=> d \in conf.groups
    BY DEF group_enabled, Groups, Rates
  <2>2. Read(r, d) = IF e THEN Reading(r, d) ELSE Null
    BY <2>1 DEF Read, Rates
  <2>3. rate'[d] = refresh_rate(rate[d], e, t, Reading(r, d))
    BY <1>1 DEF Rates, refresh_disk_io, refresh_network
  <2>4. growth'[d] = Growth(growth[d], rate[d], rate'[d], e, Reading(r, d))
    BY <1>1
  <2>5. RateInv(rate[d], growth[d]) /\ e \in BOOLEAN
    BY DEF MetricsTypes, group_enabled
  <2> HIDE DEF e
  <2>. QED  BY <1>5, <2>1, <2>2, <2>3, <2>4, <2>5, RefreshRate
<1>8. MetricsTypes'
  BY <1>1, <1>6, <1>7 DEF MetricsTypes
<1>9. /\ CpuInv' /\ SaturationEarned'
      /\ cpu'.disabled <=> "cpu" \notin conf.groups
      /\ cpu'.total # Null => /\ cpu'.total = t /\ "cpu" \in conf.groups
                              /\ Reading(r, "cpu").total
  BY <1>1, <1>2, <1>5, CpuKeeps DEF m
<1>10. SnapInv'
  <2>1. \A d \in Gauges \ {"load"} :
          /\ Shown(gauge'[d]) = Was(d)'
          /\ gauge'[d].disabled <=> d \notin raw'.conf.groups \cup {"shm_dir"}
    BY <1>1, <1>2, <1>3, <1>6
  <2>2. \A d \in Rates :
          /\ rate'[d].disabled <=> d \notin raw'.conf.groups
          /\ Shown(rate'[d]) = Null <=> Was(d)' = Null
          /\ Was(d)' # Null => \E ds \in SUBSET Devices : rate'[d].value \in [ds -> Nat \cup {Null}]
    BY <1>2, <1>3, <1>7
  <2>3. cpu'.disabled <=> "cpu" \notin raw'.conf.groups
    BY <1>2, <1>9
  <2>4. "cpu" \in raw'.conf.groups => gauge'["load"].value = Reading(raw'.reading, "load")
    BY <1>1, <1>2, <1>6
  <2>5. cpu'.total # Null => cpu'.total = clock' /\ Was("cpu")'.total
    BY <1>1, <1>3, <1>9 DEF Read
  <2>. QED  BY <2>1, <2>2, <2>3, <2>4, <2>5 DEF SnapInv, Shown
<1>11. /\ \A s \in Subjects : found[s] \in BOOLEAN \cup {Null, Gone}
       /\ \A d \in {"memory", "swap"} :
            /\ Read(r, d) \in Levels => found[<<d>>] = (Read(r, d) >= conf.level)
            /\ d \notin conf.groups => found[<<d>>] = Gone
       /\ \A i \in Mounts :
            LET v == Read(r, "volumes")
            IN  /\ v # Null /\ i \in DOMAIN v /\ v[i] \in Levels =>
                     found[<<"volume", i>>] = (v[i] < conf.level)
                /\ "volumes" \notin conf.groups => found[<<"volume", i>>] = Gone
  BY InputsFollow DEF found, g
<1>12. /\ AlarmInv' /\ RemindersSpaced'
       /\ \A s \in Subjects :
            /\ logbook'[s].open <=> s \in DOMAIN alarms'
            /\ found[s] = TRUE => logbook'[s].open
            /\ found[s] \in {FALSE, Gone} => ~ logbook'[s].open
  <2>1. \A s \in Subjects : out[s] = evaluate(s, found[s], t)
    BY DEF out
  <2>2. \A s \in Subjects : found[s] \in BOOLEAN \cup {Null, Gone}
    BY <1>11
  <2>3. /\ DOMAIN alarms' = {s \in Subjects : out[s].state # Null}
        /\ \A s \in DOMAIN alarms' : alarms'[s] = out[s].state
    BY <1>1 DEF Known
  <2>4. /\ \A s \in Subjects :
             logbook'[s] = Logged(logbook[s], out[s].record, found[s] = Gone, t)
        /\ clock' = t /\ raw'.conf = conf
    BY <1>1, <1>2
  <2>5. EvaluationStep(t, found, out)
    BY <2>1, <2>2, <2>3, <2>4 DEF EvaluationStep
  <2>. QED  BY <2>5, AlarmsKept
<1>13. LogFollowsReadings'
  <2>0. Null \notin Levels
    BY MetricsAssumption DEF Levels
  <2>1. ASSUME NEW d \in {"memory", "swap"}
        PROVE  /\ Was(d)' \in Levels => (logbook'[<<d>>].open <=> Was(d)' >= raw'.conf.level)
               /\ d \notin raw'.conf.groups => ~ logbook'[<<d>>].open
               /\ logbook'[<<d>>].open <=> <<d>> \in DOMAIN alarms'
    <3>1. <<d>> \in Subjects
      BY DEF Subjects
    <3>2. CASE Read(r, d) \in Levels /\ Read(r, d) >= conf.level
      BY <1>2, <1>3, <1>11, <1>12, <3>1, <3>2
    <3>3. CASE Read(r, d) \in Levels /\ ~(Read(r, d) >= conf.level)
      <4>1. found[<<d>>] = (Read(r, d) >= conf.level)
        BY <1>11, <3>3
      <4>3. (Read(r, d) >= conf.level) \in BOOLEAN
        OBVIOUS
      <4>2. found[<<d>>] = FALSE
        BY <3>3, <4>1, <4>3, Zenon
      <4>. QED  BY <1>2, <1>3, <1>11, <1>12, <3>1, <3>3, <4>2
    <3>4. CASE Read(r, d) \notin Levels
      BY <1>2, <1>3, <1>11, <1>12, <3>1, <3>4
    <3>. QED  BY <3>2, <3>3, <3>4
  <2>2. ASSUME NEW i \in Mounts, NEW v, v = Read(r, "volumes")
        PROVE  /\ v # Null /\ i \in DOMAIN v /\ v[i] \in Levels =>
                    (logbook'[<<"volume", i>>].open <=> v[i] < raw'.conf.level)
               /\ "volumes" \notin raw'.conf.groups => ~ logbook'[<<"volume", i>>].open
               /\ logbook'[<<"volume", i>>].open <=> <<"volume", i>> \in DOMAIN alarms'
    <3>1. <<"volume", i>> \in Subjects
      BY DEF Subjects
    <3>5. v # Null /\ i \in DOMAIN v /\ v[i] \in Levels =>
            found[<<"volume", i>>] = (v[i] < conf.level)
      BY <1>11, <2>2
    <3>6. "volumes" \notin conf.groups => found[<<"volume", i>>] = Gone
      BY <1>11
    <3>2. CASE v # Null /\ i \in DOMAIN v /\ v[i] \in Levels /\ v[i] < conf.level
      BY <1>2, <1>12, <3>1, <3>2, <3>5, <3>6
    <3>3. CASE v # Null /\ i \in DOMAIN v /\ v[i] \in Levels /\ ~(v[i] < conf.level)
      <4>1. found[<<"volume", i>>] = (v[i] < conf.level)
        BY <3>3, <3>5
      <4>3. (v[i] < conf.level) \in BOOLEAN
        OBVIOUS
      <4>2. found[<<"volume", i>>] = FALSE
        BY <3>3, <4>1, <4>3, Zenon
      <4>. QED  BY <1>2, <1>12, <3>1, <3>3, <3>6, <4>2
    <3>4. CASE ~(v # Null /\ i \in DOMAIN v /\ v[i] \in Levels)
      BY <1>2, <1>12, <3>1, <3>4, <3>6
    <3>. QED  BY <3>2, <3>3, <3>4
  <2>3. ASSUME NEW s \in Subjects \ {<<"cpu">>}
        PROVE  LET d == IF Len(s) = 2 THEN "volumes" ELSE s[1]
                   v == IF d # "volumes" THEN Was(d)'
                        ELSE IF Was(d)' = Null \/ s[2] \notin DOMAIN Was(d)' THEN Null ELSE Was(d)'[s[2]]
               IN /\ v \in Levels =>
                       (logbook'[s].open <=> IF d = "volumes" THEN v < raw'.conf.level
                                             ELSE v >= raw'.conf.level)
                  /\ d \notin raw'.conf.groups => ~ logbook'[s].open
                  /\ logbook'[s].open <=> s \in DOMAIN alarms'
    <3>1. CASE s = <<"memory">> \/ s = <<"swap">>
      <4>1. Len(s) = 1 /\ s[1] \in {"memory", "swap"} /\ s = <<s[1]>>
        BY <3>1
      <4>. QED  BY <2>1, <4>1
    <3>2. CASE \E i \in Mounts : s = <<"volume", i>>
      <4>1. PICK i \in Mounts : s = <<"volume", i>>
        BY <3>2
      <4>2. Len(s) = 2 /\ s[2] = i
        BY <4>1
      <4>3. Was("volumes")' = Read(r, "volumes")
        BY <1>3
      <4>. QED  BY <2>0, <2>2, <4>1, <4>2, <4>3
    <3>. QED  BY <3>1, <3>2 DEF Subjects
  <2>. QED  BY <2>3 DEF LogFollowsReadings
<1>. QED
  BY <1>8, <1>9, <1>10, <1>12, <1>13

LEMMA FamilyIn ==
    ASSUME kind \in Kinds
    PROVE  Family(kind) \ {"cpu"}
             \subseteq {"temperature", "frequency", "memory", "swap", "volumes", "disk_io", "network"}
BY MetricsAssumption DEF Family

(* The invariant says what the snapshot has to say. *)
LEMMA SnapshotFollows ==
    ASSUME ConfInv, MetricsTypes, SnapInv
    PROVE  SnapshotHonest
<1> DEFINE v == snapshot_values
           a == snapshot_availability
           plain == {"temperature", "frequency", "swap", "volumes", "shm_dir"}
<1>1. ASSUME NEW d \in plain PROVE v[d] = Was(d)
  <2>1. d \in Gauges \ {"load", "memory"} /\ d \in Domains /\ d # "load" /\ d # "memory"
    BY DEF Gauges, Domains
  <2>2. v[d] = Shown(gauge[d])
    BY <2>1 DEF snapshot_values, Gauges, Rates
  <2>. QED  BY <2>1, <2>2 DEF SnapInv
<1>2. v["memory"] = IF Was("memory") = Nothing THEN Null ELSE Was("memory")
  <2>1. "memory" \in Gauges \ {"load"} /\ "memory" \in Domains
    BY DEF Gauges, Domains
  <2>2. v["memory"] = IF Shown(gauge["memory"]) = Nothing THEN Null ELSE Shown(gauge["memory"])
    BY <2>1 DEF snapshot_values, Gauges, Rates
  <2>. QED  BY <2>1, <2>2 DEF SnapInv
<1>3. ASSUME NEW d \in Rates PROVE (v[d] = Null) <=> (Was(d) = Null)
  <2> DEFINE shown == [x \in DOMAIN rate[d].value \ conf.hidden |-> rate[d].value[x]]
  <2>1. d \in Domains /\ d \notin Gauges
    BY DEF Rates, Gauges, Domains
  <2>2. v[d] = IF Shown(rate[d]) = Null THEN Null ELSE shown
    BY <2>1 DEF snapshot_values, Gauges
  <2>3. Shown(rate[d]) = Null <=> Was(d) = Null
    BY DEF SnapInv
  <2>4. Was(d) # Null => shown # Null
    <3>1. ASSUME NEW ds \in SUBSET Devices, rate[d].value \in [ds -> Nat \cup {Null}]
          PROVE  shown # Null
      <4>1. shown \in [ds \ conf.hidden -> Nat \cup {Null}]
        BY <3>1
      <4>2. ds \ conf.hidden \in SUBSET Devices
        OBVIOUS
      <4> HIDE DEF shown
      <4>. QED  BY <4>1, <4>2, MetricsAssumption
    <3>. QED  BY <3>1 DEF SnapInv
  <2> HIDE DEF shown
  <2>. QED  BY <2>2, <2>3, <2>4
<1>4. ASSUME NEW d \in Family(kind) \ {"cpu"}
      PROVE  /\ (a[d] = "disabled_by_config") <=> (d \notin raw.conf.groups)
             /\ v[d] # Null => a[d] \in {"available", "unsupported"}
  <2>0. d \in {"temperature", "frequency", "memory", "swap", "volumes", "disk_io", "network"}
    BY FamilyIn DEF ConfInv
  <2>1. CASE d \in {"temperature", "frequency", "memory", "swap", "volumes"}
    <3>1. /\ d \in Gauges \ {"load"} /\ d \in Domains /\ d # "shm_dir"
      BY <2>1 DEF Gauges, Domains
    <3>2. /\ gauge[d].disabled <=> d \notin raw.conf.groups
          /\ Shown(gauge[d]) = Was(d)
      BY <3>1 DEF SnapInv
    <3>3. \/ \E missing \in {"no_sensor", "unsupported", "collect_failed"} :
               a[d] = Availability(gauge[d], missing)
          \/ a[d] = "unsupported" /\ ~ gauge[d].disabled
      <4>1. CASE d \in {"memory", "volumes"}
        BY <3>1, <4>1 DEF snapshot_availability, Gauges, Rates
      <4>2. CASE d = "swap"
        BY <3>1, <4>2 DEF snapshot_availability, Gauges, Rates
      <4>3. CASE d = "temperature"
        BY <3>1, <4>3 DEF snapshot_availability, Gauges, Rates
      <4>4. CASE d = "frequency"
        BY <3>1, <4>4 DEF snapshot_availability, Gauges, Rates
      <4>. QED  BY <2>1, <4>1, <4>2, <4>3, <4>4
    <3>4. v[d] # Null => Was(d) # Null
      BY <1>1, <1>2, <2>1
    <3> HIDE DEF v, a
    <3>. QED  BY <3>2, <3>3, <3>4 DEF Availability, Shown
  <2>2. CASE d \in {"disk_io", "network"}
    <3>1. d \in Rates /\ d \in Domains /\ d \notin Gauges
      BY <2>2 DEF Rates, Domains, Gauges
    <3>2. /\ rate[d].disabled <=> d \notin raw.conf.groups
          /\ Shown(rate[d]) = Null <=> Was(d) = Null
      BY <3>1 DEF SnapInv
    <3>3. a[d] = Availability(rate[d], "collect_failed")
      BY <2>2, <3>1 DEF snapshot_availability
    <3>4. v[d] # Null => Was(d) # Null
      BY <1>3, <3>1
    <3> HIDE DEF v, a
    <3>. QED  BY <3>2, <3>3, <3>4 DEF Availability, Shown
  <2>. QED  BY <2>0, <2>1, <2>2
<1>5. v["load"] = IF "cpu" \in raw.conf.groups THEN Reading(raw.reading, "load") ELSE Null
  <2>1. "load" \in Domains
    BY DEF Gauges, Domains
  <2>2. v["load"] = IF cpu.disabled THEN Null ELSE gauge["load"].value
    BY <2>1 DEF snapshot_values, Gauges, Rates
  <2>. QED  BY <2>2 DEF SnapInv
<1>6. cpu.total # Null => cpu.total = clock /\ Was("cpu").total
  BY DEF SnapInv
<1>7. build_snapshot.value = v /\ build_snapshot.availability = a
  BY DEF build_snapshot
<1> HIDE DEF v, a
<1>. QED
  BY <1>1, <1>2, <1>3, <1>4, <1>5, <1>6, <1>7 DEF SnapshotHonest

LEMMA RatesFollow ==
    ASSUME MetricsTypes
    PROVE  RatesConserve
BY DEF MetricsTypes, RatesConserve, RateInv

LEMMA ReadingsFollow ==
    ASSUME MetricsIInv
    PROVE  ReadingsHonest
<1>1. SnapshotHonest
  <2>1. CASE deadline >= 0
    BY <2>1, SnapshotFollows DEF MetricsIInv
  <2>2. CASE ~(deadline >= 0)
    BY <2>2 DEF SnapshotHonest
  <2>. QED  BY <2>1, <2>2
<1>2. RatesConserve
  BY RatesFollow DEF MetricsIInv
<1>. QED
  BY <1>1, <1>2 DEF MetricsIInv, ReadingsHonest, MetricsHonest, AlarmsHonest

LEMMA FirstReadings ==
    ASSUME MetricsInit
    PROVE  MetricsIInv
<1>1. ConfInv
  <2>1. conf.groups \in SUBSET Groups /\ conf.repeat \in Nat /\ conf.sustain \in Nat \ {0}
        /\ conf \in [groups : SUBSET Groups, level : {1}, repeat : Nat, sustain : Nat \ {0},
                     hidden : SUBSET Devices]
    BY MetricsAssumption DEF MetricsInit
  <2>2. conf \in Configs
    BY <2>1 DEF Configs
  <2>. QED  BY <2>2 DEF MetricsInit, ConfInv
<1>2. MetricsTypes
  <2>1. IsGauge(NoGauge)
    BY DEF IsGauge, NoGauge
  <2>2. RateInv(NoRate, <<>>)
    BY DEF RateInv, IsRate, NoRate
  <2>. QED  BY <2>1, <2>2 DEF MetricsInit, MetricsTypes
<1>3. CpuInv
  <2>1. CpuShape(NoCpu)
    BY DEF CpuShape, NoCpu, CpuFields
  <2>2. DOMAIN NoCpu.usage = {} /\ NoCpu.prev = Null
    BY DEF NoCpu
  <2>3. CountsInv({}, <<>>, <<>>)
    <3>1. <<>> \in [{} -> Nat]
      OBVIOUS
    <3>. QED  BY <3>1 DEF CountsInv
  <2>. QED  BY <2>1, <2>2, <2>3 DEF MetricsInit, CpuInv
<1>4. AlarmInv
  <2>1. [open |-> FALSE, since |-> 0, prior |-> 0, last |-> 0, record |-> "none"] \in LogRecs
    BY DEF LogRecs
  <2>2. DOMAIN alarms = {}
    BY DEF MetricsInit
  <2>3. \A s \in Subjects : logbook[s] \in LogRecs /\ logbook[s].open = FALSE
    BY <2>1 DEF MetricsInit
  <2>. QED  BY <2>2, <2>3 DEF AlarmInv
<1>5. LogFollowsReadings
  <2>1. \A d : Was(d) = Null
    <3>1. \A d : Reading(<<>>, d) = Null
      BY DEF Reading
    <3>2. raw.reading = <<>>
      BY DEF MetricsInit
    <3>. QED  BY <3>1, <3>2 DEF Was
  <2>2. Null \notin Levels
    BY MetricsAssumption DEF Levels
  <2>3. \A s \in Subjects : logbook[s].open = FALSE /\ s \notin DOMAIN alarms
    BY DEF MetricsInit
  <2>. QED  BY <2>1, <2>2, <2>3 DEF LogFollowsReadings
<1>6. RemindersSpaced /\ SaturationEarned /\ ~(deadline >= 0)
  <2>1. \A s \in Subjects : logbook[s].record = "none"
    BY DEF MetricsInit
  <2>2. DOMAIN cpu.usage = {} /\ deadline = -1
    BY DEF MetricsInit, NoCpu
  <2>. QED  BY <2>1, <2>2 DEF RemindersSpaced, SaturationEarned
<1>. QED
  BY <1>1, <1>2, <1>3, <1>4, <1>5, <1>6 DEF MetricsIInv

LEMMA FirstTick ==
    ASSUME MetricsIInv, init
    PROVE  MetricsIInv'
<1>1. PICK r \in Collected(kind) : measure_once(0, r)
  BY DEF init
<1>2. deadline = -1 /\ deadline' = 1 /\ clock = 0
  BY DEF init, MetricsIInv, ConfInv
<1>3. /\ MetricsTypes' /\ CpuInv' /\ AlarmInv' /\ SnapInv'
      /\ LogFollowsReadings' /\ RemindersSpaced' /\ SaturationEarned'
  BY <1>1, <1>2, MeasureKeeps DEF MetricsIInv
<1>4. ConfInv'
  <2>1. /\ clock' = 0 /\ raw' = [reading |-> r, conf |-> conf]
        /\ UNCHANGED <<kind, sets, conf>>
    BY <1>1 DEF measure_once
  <2>. QED  BY <1>2, <2>1 DEF MetricsIInv, ConfInv
<1>. QED
  BY <1>3, <1>4 DEF MetricsIInv

LEMMA LaterTick ==
    ASSUME MetricsIInv, on_measure
    PROVE  MetricsIInv'
<1>1. PICK t \in {deadline, deadline + 2} \cap 0..MaxClock, r \in Collected(kind) :
        /\ measure_once(t, r)
        /\ deadline' = advance_deadline(deadline, t).next
  BY DEF on_measure
<1>2. deadline \in Nat /\ clock \in Nat /\ clock <= deadline
  BY DEF on_measure, MetricsIInv, ConfInv
<1>3. t \in Nat /\ clock <= t /\ deadline <= t
  BY <1>1, <1>2
<1>4. /\ MetricsTypes' /\ CpuInv' /\ AlarmInv' /\ SnapInv'
      /\ LogFollowsReadings' /\ RemindersSpaced' /\ SaturationEarned'
  BY <1>1, <1>3, MeasureKeeps DEF MetricsIInv
<1>5. deadline' \in Nat /\ t <= deadline'
  <2>1. deadline' = IF t > deadline + 1 THEN t ELSE deadline + 1
    BY <1>1 DEF advance_deadline
  <2>. QED  BY <1>2, <1>3, <2>1, <1>1
<1>6. ConfInv'
  <2>1. /\ clock' = t /\ raw' = [reading |-> r, conf |-> conf]
        /\ UNCHANGED <<kind, sets, conf>>
    BY <1>1 DEF measure_once
  <2>. QED  BY <1>3, <1>5, <2>1 DEF MetricsIInv, ConfInv
<1>. QED
  BY <1>4, <1>6 DEF MetricsIInv

LEMMA ConfigTick ==
    ASSUME MetricsIInv, apply_sysmon_config
    PROVE  MetricsIInv'
<1>1. /\ sets' = sets + 1 /\ deadline' = clock + 1 /\ deadline >= 0
      /\ UNCHANGED <<kind, clock, gauge, rate, cpu, tracker, alarms, raw, logbook, growth, runs>>
  BY DEF apply_sysmon_config, metrics, told
<1>2. sets' \in Nat /\ sets' # 0 /\ deadline' \in Nat /\ clock' <= deadline'
  BY <1>1 DEF MetricsIInv, ConfInv
<1>3. conf' \in Configs
  <2>0. conf \in Configs /\ kind \in Kinds
    BY DEF MetricsIInv, ConfInv
  <2>1. CASE \E d \in Family(kind) :
               conf' = [conf EXCEPT !.groups = IF d \in @ THEN @ \ {d} ELSE @ \cup {d}]
    <3>1. PICK d \in Family(kind) :
            conf' = [conf EXCEPT !.groups = IF d \in @ THEN @ \ {d} ELSE @ \cup {d}]
      BY <2>1
    <3>2. d \in Groups
      BY <2>0, MetricsAssumption DEF Family, Groups, Gauges, Rates
    <3>. QED  BY <2>0, <3>1, <3>2 DEF Configs
  <2>2. CASE \E l \in 1..(MaxLevel + 1) : conf' = [conf EXCEPT !.level = l]
    BY <2>0, <2>2 DEF Configs
  <2>3. CASE \E n \in Repeats : conf' = [conf EXCEPT !.repeat = n]
    BY <2>0, <2>3, MetricsAssumption DEF Configs
  <2>4. CASE \E n \in Sustains : conf' = [conf EXCEPT !.sustain = n]
    BY <2>0, <2>4, MetricsAssumption DEF Configs
  <2>5. CASE conf' = [conf EXCEPT !.hidden = IF @ = {} THEN Virtual ELSE {}]
    BY <2>0, <2>5, MetricsAssumption DEF Configs
  <2>. QED  BY <2>1, <2>2, <2>3, <2>4, <2>5 DEF apply_sysmon_config
<1>4. ConfInv'
  BY <1>1, <1>2, <1>3 DEF MetricsIInv, ConfInv
<1>5. MetricsTypes'
  BY <1>1 DEF MetricsIInv, MetricsTypes, RateInv, IsRate, Baseline, IsGauge
<1>6. CpuInv'
  <2>1. CpuShape(cpu)'
    BY <1>1 DEF MetricsIInv, CpuInv, CpuShape
  <2>2. CountsInv(DOMAIN cpu.usage, tracker, runs)'
    BY <1>1, <1>2 DEF MetricsIInv, CpuInv, CountsInv, Follows
  <2>. QED  BY <1>1, <2>1, <2>2 DEF MetricsIInv, CpuInv
<1>7. AlarmInv'
  BY <1>1 DEF MetricsIInv, AlarmInv, Counted
<1>8. SnapInv'
  BY <1>1 DEF MetricsIInv, SnapInv, Shown, Was
<1>9. LogFollowsReadings' /\ RemindersSpaced'
  BY <1>1 DEF MetricsIInv, LogFollowsReadings, RemindersSpaced, Was
<1>10. SaturationEarned'
  BY <1>1, <1>2 DEF MetricsIInv, SaturationEarned
<1>. QED
  BY <1>4, <1>5, <1>6, <1>7, <1>8, <1>9, <1>10 DEF MetricsIInv

(* A step that changes nothing of the monitor. *)
LEMMA StutterTick ==
    ASSUME MetricsIInv, UNCHANGED mvars
    PROVE  MetricsIInv'
<1>1. UNCHANGED <<kind, clock, deadline, sets, conf, gauge, rate, cpu, tracker, alarms, raw,
                  logbook, growth, runs>>
  BY DEF mvars, metrics, told
<1>2. ConfInv'
  BY <1>1 DEF MetricsIInv, ConfInv
<1>3. MetricsTypes'
  BY <1>1 DEF MetricsIInv, MetricsTypes, RateInv, IsRate, Baseline, IsGauge
<1>4. CpuInv'
  BY <1>1 DEF MetricsIInv, CpuInv, CpuShape, CountsInv, Follows
<1>5. AlarmInv'
  BY <1>1 DEF MetricsIInv, AlarmInv, Counted
<1>6. (deadline >= 0 => SnapInv)'
  BY <1>1 DEF MetricsIInv, SnapInv, Shown, Was
<1>7. LogFollowsReadings' /\ RemindersSpaced'
  BY <1>1 DEF MetricsIInv, LogFollowsReadings, RemindersSpaced, Was
<1>8. SaturationEarned'
  BY <1>1 DEF MetricsIInv, SaturationEarned
<1>. QED
  BY <1>2, <1>3, <1>4, <1>5, <1>6, <1>7, <1>8 DEF MetricsIInv

(* ReadingsHonest, for any sets of cores, mounts and devices, any thresholds,
   reminder intervals and sustain counts, and any number of ticks, failed
   readings and configurations: the snapshot shows what the last tick read
   (snapshot_builder.cpp), the rates of a device add up to what its counter
   moved (main.cpp compute_rate, refresh_disk_io, refresh_network), the log is
   open exactly for what is over its limit and reminds at multiples of the
   interval (thresholds.cpp evaluate, repeat_due), and a core is saturated only
   after that many high usages in a row (CoreSaturationTracker). *)
THEOREM ReadingsCorrect == MetricsSpec => []ReadingsHonest
<1>1. MetricsInit => MetricsIInv
  BY FirstReadings
<1>2. MetricsIInv /\ [MetricsNext]_mvars => MetricsIInv'
  BY FirstTick, LaterTick, ConfigTick, StutterTick DEF MetricsNext
<1>3. MetricsIInv => ReadingsHonest
  BY ReadingsFollow
<1>. QED
  BY <1>1, <1>2, <1>3, PTL DEF MetricsSpec
=============================================================================
