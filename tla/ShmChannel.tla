----------------------------- MODULE ShmChannel -----------------------------
(***************************************************************************)
(* One shared-memory channel of libs/shm: Writer, Reader, PagePool,        *)
(* PageCleaner and the reader table of ChannelMeta.                        *)
(*                                                                         *)
(* The channel is a log of frames kept in page files of one size.          *)
(* next_write_pos is the only word readers and writers share without a     *)
(* lock.  A writer takes the write lock, places a frame at or after        *)
(* next_write_pos (open_frame), fills it and moves next_write_pos past it  *)
(* (close_frame).  A reader reads whatever lies below next_write_pos.  The *)
(* master deletes old page files below the smallest page any registered    *)
(* reader still reports.                                                   *)
(*                                                                         *)
(* The unit of length is 8 bytes, the alignment open_frame enforces and    *)
(* the size of DzFrameHeader, so a frame header fills one unit.  The code  *)
(* keeps a position as one 64-bit number and splits it with / and % by     *)
(* page_size; here it is the pair of both results, pg and off.             *)
(***************************************************************************)
EXTENDS Naturals, Sequences, FiniteSets

CONSTANTS
  Writers,       \* processes that write the channel
  Readers,       \* processes that read it
  NullLock,      \* TRUE: Writer<NullLock> (md channel), FALSE: Writer<ProcessMutex>
  PageSize,      \* units in a page file
  Sizes,         \* frame sizes the writers use, header included
  MaxPageCount,  \* CleanupPolicy.max_page_count
  AgeCleanup,    \* TRUE: CleanupPolicy.max_page_age_hours is set
  MaxPage,       \* bound: page files above it cannot be created (disk full)
  MaxOpens,      \* bound: frames ever opened
  MaxCrashes,    \* bound: writer crashes
  MaxExits,      \* bound: reader exits
  None           \* no process

ASSUME ChannelAssumption ==
  /\ PageSize \in Nat \ {0}
  /\ Sizes \subseteq 1..PageSize
  /\ NullLock \in BOOLEAN
  /\ NullLock => \A v, w \in Writers : v = w
  /\ AgeCleanup \in BOOLEAN
  /\ MaxPage \in Nat /\ MaxOpens \in Nat /\ MaxCrashes \in Nat /\ MaxExits \in Nat
  /\ MaxPageCount \in Nat
  /\ None \notin Writers

VARIABLES
  nwp,      \* ChannelMeta::next_write_pos
  files,    \* page files on disk
  mem,      \* contents of the pages
  lost,     \* history: pages the cleaner has deleted
  lock,     \* owner of the write lock
  wpc,      \* where each writer is
  wpage,    \* Writer::page_: the page each writer has mapped
  wpos,     \* Writer::current_page_id_ and offset_in_page_
  pend,     \* Writer::pending_*: the frame being written
  reg,      \* the reader table: page_index of each registered reader
  rpc,      \* where each reader is
  rpos,     \* Reader::current_page_id_ and offset_in_page_
  rloc,     \* page_id and offset, the locals of next_frame
  log,      \* history: the frames committed, in order
  cur,      \* history: how many frames of log lie before each reader's position
  last,     \* history: what next_frame returned last to each reader
  opens, crashes, exits

wvars == <<lock, wpc, wpage, wpos, pend>>
rvars == <<reg, rpc, rpos, rloc, cur, last>>
vars == <<nwp, files, mem, lost, wvars, rvars, log, opens, crashes, exits>>

Pages == 0..MaxPage
Offsets == 0..(PageSize - 1)
FrameIds == 1..MaxOpens

\* One unit of a page: a frame header, or a unit of a frame's payload.  A
\* fresh page is all zero, and a zero header is DZ_FRAME_INVALID_FILL (type
\* 0) of size 0.
Cell == [kind : {"frame", "fill", "data"}, size : 0..PageSize, id : 0..MaxOpens]
ZeroCell == [kind |-> "fill", size |-> 0, id |-> 0]
ZeroPage == [o \in Offsets |-> ZeroCell]
Header(size, id) == [kind |-> "frame", size |-> size, id |-> id]
Padding(size) == [kind |-> "fill", size |-> size, id |-> 0]
Data(id) == [kind |-> "data", size |-> 0, id |-> id]

NoPend == [pg |-> 0, off |-> 0, size |-> 0, id |-> 0]
Start == [pg |-> 0, off |-> 0]

\* The position page_size * pg + off, split again by / and %.
Norm(pg, off) == IF off = PageSize THEN [pg |-> pg + 1, off |-> 0]
                                   ELSE [pg |-> pg, off |-> off]

\* Positions are compared as the numbers they stand for.
Before(p, q) == LET a == Norm(p.pg, p.off)
                    b == Norm(q.pg, q.off)
                IN a.pg < b.pg \/ (a.pg = b.pg /\ a.off < b.off)

\* ChannelMeta::open_or_create of a new channel: write_initial_frame has put
\* one fill header at the start of page 0 and moved next_write_pos past it.
Init ==
  /\ nwp = Norm(0, 1)
  /\ files = {0}
  /\ mem = [p \in Pages |-> IF p = 0 THEN [ZeroPage EXCEPT ![0] = Padding(1)] ELSE ZeroPage]
  /\ lost = {}
  /\ lock = None
  /\ wpc = [w \in Writers |-> "dead"]
  /\ wpage = [w \in Writers |-> 0]
  /\ wpos = [w \in Writers |-> Start]
  /\ pend = [w \in Writers |-> NoPend]
  /\ reg = [r \in {} |-> 0]
  /\ rpc = [r \in Readers |-> "off"]
  /\ rpos = [r \in Readers |-> Start]
  /\ rloc = [r \in Readers |-> Start]
  /\ log = <<>>
  /\ cur = [r \in Readers |-> 0]
  /\ last = [r \in Readers |-> <<>>]
  /\ opens = 0 /\ crashes = 0 /\ exits = 0

-----------------------------------------------------------------------------
(* PagePool *)

\* get_page of a writable pool creates the file when it is missing; a new
\* file reads as zeros.
GetPage(p) ==
  /\ p \in Pages
  /\ files' = files \cup {p}
  /\ mem' = IF p \in files THEN mem ELSE [mem EXCEPT ![p] = ZeroPage]

\* get_page of a read-only pool only opens files that are there.
CanOpen(p) == p \in files

-----------------------------------------------------------------------------
(* Writer *)

Goto(w, pc) == wpc' = [wpc EXCEPT ![w] = pc]

\* Mutant of Lock: the lock is taken from a living owner.
LockNoWait(w) == IF NullLock THEN UNCHANGED lock ELSE lock' = w

Lock(w) == IF NullLock THEN UNCHANGED lock ELSE lock = None /\ lock' = w
Unlock(w) == lock' = IF lock = w THEN None ELSE lock

\* Writer::create reads next_write_pos ...
CreateLoad(w) ==
  /\ wpc[w] = "dead"
  /\ Goto(w, "loaded")
  /\ wpos' = [wpos EXCEPT ![w] = nwp]
  /\ UNCHANGED <<nwp, files, mem, lost, lock, wpage, pend, rvars, log, opens, crashes, exits>>

\* ... and later maps, or creates, the page it fell into.
CreateOpen(w) ==
  /\ wpc[w] = "loaded"
  /\ GetPage(wpos[w].pg)
  /\ Goto(w, "idle")
  /\ wpage' = [wpage EXCEPT ![w] = wpos[w].pg]
  /\ UNCHANGED <<nwp, lost, lock, wpos, pend, rvars, log, opens, crashes, exits>>

\* The page cannot be had: Writer::create throws and the process ends.
CreateFail(w) ==
  /\ wpc[w] = "loaded"
  /\ Goto(w, "dead")
  /\ UNCHANGED <<nwp, files, mem, lost, lock, wpage, wpos, pend, rvars, log, opens, crashes, exits>>

\* open_frame takes the lock and checks the frame's size.
OpenLock(w, size) ==
  /\ wpc[w] = "idle"
  /\ opens < MaxOpens
  /\ Lock(w)
  /\ Goto(w, "locked")
  /\ opens' = opens + 1
  /\ pend' = [pend EXCEPT ![w] = [pg |-> 0, off |-> 0, size |-> size, id |-> opens + 1]]
  /\ UNCHANGED <<nwp, files, mem, lost, wpage, wpos, rvars, log, crashes, exits>>

\* Mutant of NeedsRealign: page_ is not mapped anew after another writer's frame.
NeverRealign(w) == FALSE

\* Where the frame would go: a NullLock writer trusts its own position, any
\* other writer reads next_write_pos under the lock.
WritePos(w) == IF NullLock THEN wpos[w] ELSE nwp
NeedsRealign(w) == ~NullLock /\ nwp.pg # wpage[w]

\* open_frame takes its position and maps the page it is in, when another
\* writer has moved on to a page this one has not mapped.
OpenAlign(w) ==
  /\ wpc[w] = "locked"
  /\ IF NeedsRealign(w)
     THEN GetPage(nwp.pg) /\ wpage' = [wpage EXCEPT ![w] = nwp.pg]
     ELSE UNCHANGED <<files, mem, wpage>>
  /\ Goto(w, "aligned")
  /\ pend' = [pend EXCEPT ![w] = [pg |-> WritePos(w).pg, off |-> WritePos(w).off,
                                  size |-> @.size, id |-> @.id]]
  /\ UNCHANGED <<nwp, lost, lock, wpos, rvars, log, opens, crashes, exits>>

Remaining(w) == PageSize - pend[w].off
Fits(w) == pend[w].size <= Remaining(w)

\* Mutant of OpenPad: the rest of the page is left as it was.
OpenPadNothing(w) ==
  /\ wpc[w] = "aligned"
  /\ ~Fits(w)
  /\ Goto(w, "crossing")
  /\ pend' = [pend EXCEPT ![w] = [pg |-> @.pg + 1, off |-> 0, size |-> @.size, id |-> @.id]]
  /\ UNCHANGED <<nwp, files, mem, lost, lock, wpage, wpos, rvars, log, opens, crashes, exits>>

\* The frame does not fit: pad the rest of the page and go on to the next.
OpenPad(w) ==
  /\ wpc[w] = "aligned"
  /\ ~Fits(w)
  /\ mem' = IF Remaining(w) >= 1
            THEN [mem EXCEPT ![wpage[w]][pend[w].off] = Padding(Remaining(w))]
            ELSE mem
  /\ Goto(w, "crossing")
  /\ pend' = [pend EXCEPT ![w] = [pg |-> @.pg + 1, off |-> 0, size |-> @.size, id |-> @.id]]
  /\ UNCHANGED <<nwp, files, lost, lock, wpage, wpos, rvars, log, opens, crashes, exits>>

OpenNewPage(w) ==
  /\ wpc[w] = "crossing"
  /\ GetPage(pend[w].pg)
  /\ wpage' = [wpage EXCEPT ![w] = pend[w].pg]
  /\ Goto(w, "aligned")
  /\ UNCHANGED <<nwp, lost, lock, wpos, pend, rvars, log, opens, crashes, exits>>

\* get_page fails (disk full, I/O error): open_frame unlocks and returns null.
OpenFail(w) ==
  /\ \/ wpc[w] = "locked" /\ NeedsRealign(w)
     \/ wpc[w] = "crossing"
  /\ Goto(w, "idle")
  /\ Unlock(w)
  /\ pend' = [pend EXCEPT ![w] = NoPend]
  /\ UNCHANGED <<nwp, files, mem, lost, wpage, wpos, rvars, log, opens, crashes, exits>>

\* The header goes into the mapped page: open_frame returns the payload.
OpenHeader(w) ==
  /\ wpc[w] = "aligned"
  /\ Fits(w)
  /\ mem' = [mem EXCEPT ![wpage[w]][pend[w].off] = Header(pend[w].size, pend[w].id)]
  /\ Goto(w, "opened")
  /\ UNCHANGED <<nwp, files, lost, lock, wpage, wpos, pend, rvars, log, opens, crashes, exits>>

\* write_frame, write_ext_frame and write_ext_inst_frame copy the payload.
WritePayload(w) ==
  /\ wpc[w] = "opened"
  /\ mem' = [mem EXCEPT ![wpage[w]] =
               [o \in Offsets |->
                  IF o > pend[w].off /\ o < pend[w].off + pend[w].size
                  THEN Data(pend[w].id) ELSE @[o]]]
  /\ Goto(w, "filled")
  /\ UNCHANGED <<nwp, files, lost, lock, wpage, wpos, pend, rvars, log, opens, crashes, exits>>

\* close_frame publishes the frame and unlocks.
CloseFrame(w) ==
  /\ wpc[w] = "filled"
  /\ nwp' = Norm(pend[w].pg, pend[w].off + pend[w].size)
  /\ wpos' = IF NullLock
             THEN [wpos EXCEPT ![w] = [pg |-> pend[w].pg, off |-> pend[w].off + pend[w].size]]
             ELSE wpos
  /\ log' = Append(log, pend[w])
  /\ pend' = [pend EXCEPT ![w] = NoPend]
  /\ Unlock(w)
  /\ Goto(w, "idle")
  /\ UNCHANGED <<files, mem, lost, wpage, rvars, opens, crashes, exits>>

\* prefetch_pages creates and maps pages ahead of the writer's own.
Prefetch(w) ==
  /\ wpc[w] = "idle"
  /\ GetPage(wpage[w] + 1)
  /\ UNCHANGED <<nwp, lost, wvars, rvars, log, opens, crashes, exits>>

\* The process dies at any point.  The write lock is robust: the next lock()
\* of a dead owner's lock succeeds, so the death frees it.
Crash(w) ==
  /\ wpc[w] # "dead"
  /\ crashes < MaxCrashes
  /\ crashes' = crashes + 1
  /\ Goto(w, "dead")
  /\ Unlock(w)
  /\ pend' = [pend EXCEPT ![w] = NoPend]
  /\ UNCHANGED <<nwp, files, mem, lost, wpage, wpos, rvars, log, opens, exits>>

-----------------------------------------------------------------------------
(* The reader table and Reader *)

RGoto(r, pc) == rpc' = [rpc EXCEPT ![r] = pc]

\* ChannelMeta::add_reader: a new entry starts at page_index 0.
AddReader(r) ==
  /\ rpc[r] = "off"
  /\ r \notin DOMAIN reg
  /\ reg' = [q \in DOMAIN reg \cup {r} |-> IF q = r THEN 0 ELSE reg[q]]
  /\ UNCHANGED <<nwp, files, mem, lost, wvars, rpc, rpos, rloc, cur, last, log, opens, crashes, exits>>

\* Reader::create starts at next_write_pos: history is not replayed ...
ReaderLoad(r) ==
  /\ rpc[r] = "off"
  /\ r \in DOMAIN reg
  /\ RGoto(r, "loaded")
  /\ rpos' = [rpos EXCEPT ![r] = nwp]
  /\ rloc' = [rloc EXCEPT ![r] = nwp]
  /\ cur' = [cur EXCEPT ![r] = Len(log)]
  /\ UNCHANGED <<nwp, files, mem, lost, wvars, reg, last, log, opens, crashes, exits>>

\* ... and opens the page of that position, or throws when it has no file.
ReaderOpen(r) ==
  /\ rpc[r] = "loaded"
  /\ RGoto(r, IF CanOpen(rpos[r].pg) THEN "open" ELSE "failed")
  /\ UNCHANGED <<nwp, files, mem, lost, wvars, reg, rpos, rloc, cur, last, log, opens, crashes, exits>>

\* next_frame compares read_pos_ with next_write_pos.
NextFrame(r) ==
  /\ rpc[r] = "open"
  /\ Before(rpos[r], nwp)
  /\ RGoto(r, "reading")
  /\ UNCHANGED <<nwp, files, mem, lost, wvars, reg, rpos, rloc, cur, last, log, opens, crashes, exits>>

\* At the end of a page next_frame goes on to the next one and remembers
\* it; without its file it gives up, and its position stays as it was.
NextPage(r) ==
  /\ rpc[r] = "reading"
  /\ rloc[r].off = PageSize
  /\ IF CanOpen(rloc[r].pg + 1)
     THEN LET p == [pg |-> rloc[r].pg + 1, off |-> 0]
          IN /\ rloc' = [rloc EXCEPT ![r] = p]
             /\ rpos' = [rpos EXCEPT ![r] = p]
             /\ UNCHANGED rpc
     ELSE /\ RGoto(r, "open")
          /\ rloc' = [rloc EXCEPT ![r] = rpos[r]]
          /\ UNCHANGED rpos
  /\ UNCHANGED <<nwp, files, mem, lost, wvars, reg, cur, last, log, opens, crashes, exits>>

HeaderAt(r) == mem[rloc[r].pg][rloc[r].off]

\* A fill header is skipped; one of an impossible size ends the call.
NextFill(r) ==
  /\ rpc[r] = "reading"
  /\ rloc[r].off < PageSize
  /\ HeaderAt(r).kind = "fill"
  /\ IF HeaderAt(r).size >= 1
     THEN /\ rloc' = [rloc EXCEPT ![r] = [pg |-> @.pg, off |-> @.off + HeaderAt(r).size]]
          /\ UNCHANGED rpc
     ELSE rloc' = [rloc EXCEPT ![r] = rpos[r]] /\ RGoto(r, "open")
  /\ UNCHANGED <<nwp, files, mem, lost, wvars, reg, rpos, cur, last, log, opens, crashes, exits>>

\* What the caller finds in the frame next_frame returned: the frame, or the
\* mark 0 when its bytes are not those of one frame.
FrameAt(r) ==
  LET h == HeaderAt(r)
  IN IF /\ h.kind = "frame"
        /\ \A o \in Offsets : o > rloc[r].off /\ o < rloc[r].off + h.size
                              => mem[rloc[r].pg][o] = Data(h.id)
     THEN h.id ELSE 0

\* Mutant of NextDeliver: the position moves past the header only.
NextDeliverHeader(r) ==
  /\ rpc[r] = "reading"
  /\ rloc[r].off < PageSize
  /\ HeaderAt(r).kind # "fill"
  /\ LET p == [pg |-> rloc[r].pg, off |-> rloc[r].off + 1]
     IN rpos' = [rpos EXCEPT ![r] = p] /\ rloc' = [rloc EXCEPT ![r] = p]
  /\ last' = [last EXCEPT ![r] = <<FrameAt(r)>>]
  /\ cur' = [cur EXCEPT ![r] = @ + 1]
  /\ RGoto(r, "open")
  /\ UNCHANGED <<nwp, files, mem, lost, wvars, reg, log, opens, crashes, exits>>

\* next_frame returns the frame and moves past it.
NextDeliver(r) ==
  /\ rpc[r] = "reading"
  /\ rloc[r].off < PageSize
  /\ HeaderAt(r).kind # "fill"
  /\ LET p == [pg |-> rloc[r].pg, off |-> rloc[r].off + HeaderAt(r).size]
     IN rpos' = [rpos EXCEPT ![r] = p] /\ rloc' = [rloc EXCEPT ![r] = p]
  /\ last' = [last EXCEPT ![r] = <<FrameAt(r)>>]
  /\ cur' = [cur EXCEPT ![r] = @ + 1]
  /\ RGoto(r, "open")
  /\ UNCHANGED <<nwp, files, mem, lost, wvars, reg, log, opens, crashes, exits>>

\* release_old_pages reports the reader's page to the reader table.
ReleaseOldPages(r) ==
  /\ rpc[r] = "open"
  /\ r \in DOMAIN reg
  /\ reg' = [reg EXCEPT ![r] = rpos[r].pg]
  /\ UNCHANGED <<nwp, files, mem, lost, wvars, rpc, rpos, rloc, cur, last, log, opens, crashes, exits>>

\* The reader's process exits or crashes, or did not survive its start.
ReaderExit(r) ==
  /\ rpc[r] \in {"loaded", "open", "reading", "failed"}
  /\ exits < MaxExits
  /\ exits' = exits + 1
  /\ RGoto(r, "exited")
  /\ rpos' = [rpos EXCEPT ![r] = Start]
  /\ rloc' = [rloc EXCEPT ![r] = Start]
  /\ cur' = [cur EXCEPT ![r] = 0]
  /\ last' = [last EXCEPT ![r] = <<>>]
  /\ UNCHANGED <<nwp, files, mem, lost, wvars, reg, log, opens, crashes>>

\* The master learns of the exit and removes the reader's entry.
RemoveReader(r) ==
  /\ rpc[r] = "exited"
  /\ RGoto(r, "off")
  /\ reg' = [q \in DOMAIN reg \ {r} |-> reg[q]]
  /\ UNCHANGED <<nwp, files, mem, lost, wvars, rpos, rloc, cur, last, log, opens, crashes, exits>>

-----------------------------------------------------------------------------
(* PageCleaner *)

\* Mutant of BelowFloor: the reader table is not consulted.
BelowActive(p) == p < nwp.pg

\* min(reader page_index, writer page_index, active page): the writer table
\* is empty, nothing in the system calls add_writer.
BelowFloor(p) == p < nwp.pg /\ \A r \in DOMAIN reg : p < reg[r]

\* The file is older than the newest max_page_count ones, or than its age.
Expired(p) == \/ AgeCleanup
              \/ MaxPageCount > 0 /\ Cardinality({q \in files : q >= p}) > MaxPageCount

\* cleanup runs under the meta lock; a file that cannot be removed is skipped.
Cleanup ==
  \E gone \in SUBSET {p \in files : BelowFloor(p) /\ Expired(p)} :
    /\ gone # {}
    /\ files' = files \ gone
    /\ lost' = lost \cup gone
    /\ UNCHANGED <<nwp, mem, wvars, rvars, log, opens, crashes, exits>>

-----------------------------------------------------------------------------
WriterStep(w) ==
  \/ CreateLoad(w) \/ CreateOpen(w) \/ CreateFail(w)
  \/ \E size \in Sizes : OpenLock(w, size)
  \/ OpenAlign(w) \/ OpenPad(w) \/ OpenNewPage(w) \/ OpenFail(w) \/ OpenHeader(w)
  \/ WritePayload(w) \/ CloseFrame(w) \/ Prefetch(w) \/ Crash(w)

ReaderStep(r) ==
  \/ AddReader(r) \/ ReaderLoad(r) \/ ReaderOpen(r)
  \/ NextFrame(r) \/ NextPage(r) \/ NextFill(r) \/ NextDeliver(r)
  \/ ReleaseOldPages(r) \/ ReaderExit(r) \/ RemoveReader(r)

Next == \/ \E w \in Writers : WriterStep(w)
        \/ \E r \in Readers : ReaderStep(r)
        \/ Cleanup

Spec == Init /\ [][Next]_vars

\* A process that is running goes on running: a reader finishes the call of
\* next_frame it has begun and calls it again while frames wait, a writer
\* that holds the lock finishes its frame.  Nobody is bound to start a
\* frame, to come up again, or to clean pages.
Fairness ==
  /\ \A r \in Readers :
       WF_vars(NextFrame(r) \/ NextPage(r) \/ NextFill(r) \/ NextDeliver(r))
  /\ \A w \in Writers :
       WF_vars(\/ OpenAlign(w) \/ OpenPad(w) \/ OpenNewPage(w) \/ OpenFail(w)
               \/ OpenHeader(w) \/ WritePayload(w) \/ CloseFrame(w))

FairSpec == Spec /\ Fairness

-----------------------------------------------------------------------------
(* Properties *)

Pos == [pg : Nat, off : Nat]
Frame == [pg : Nat, off : 0..PageSize, size : 0..PageSize, id : 0..MaxOpens]

\* Every variable has its type: next_write_pos is a normalised position, the
\* mapped pages and the pages of committed frames are pages that can exist.
TypeOK ==
  /\ nwp \in [pg : Nat, off : Offsets]
  /\ files \subseteq Pages
  /\ mem \in [Pages -> [Offsets -> Cell]]
  /\ lost \subseteq Pages
  /\ lock \in Writers \cup {None}
  /\ wpc \in [Writers -> {"dead", "loaded", "idle", "locked", "aligned",
                          "crossing", "opened", "filled"}]
  /\ wpage \in [Writers -> Pages]
  /\ wpos \in [Writers -> Pos]
  /\ pend \in [Writers -> Frame]
  /\ DOMAIN reg \subseteq Readers /\ reg \in [DOMAIN reg -> Nat]
  /\ rpc \in [Readers -> {"off", "loaded", "open", "reading", "failed", "exited"}]
  /\ rpos \in [Readers -> Pos]
  /\ rloc \in [Readers -> Pos]
  /\ log \in Seq([pg : Pages, off : Offsets, size : 1..PageSize, id : FrameIds])
  /\ cur \in [Readers -> Nat]
  /\ last \in [Readers -> Seq(0..MaxOpens)]
  /\ opens \in 0..MaxOpens /\ crashes \in 0..MaxCrashes /\ exits \in 0..MaxExits

\* The frame f is in memory as it was written, header and payload.
Intact(f) ==
  /\ mem[f.pg][f.off] = Header(f.size, f.id)
  /\ \A o \in Offsets : o > f.off /\ o < f.off + f.size => mem[f.pg][o] = Data(f.id)

\* The bytes of a committed frame never change, whatever the other writers
\* do, and wherever a writer died: no header, payload or padding of
\* open_frame lands below next_write_pos, or in a page other than the one it
\* was meant for.  (Only the cleaner ends a frame's life.)
CommittedIntact ==
  \A i \in 1..Len(log) : log[i].pg \notin lost => Intact(log[i])

\* Only the owner of the write lock is between open_frame's lock and
\* close_frame's unlock, also after a writer has died holding it.
Writing(w) == wpc[w] \in {"locked", "aligned", "crossing", "opened", "filled"}
MutualExclusion == \A v, w \in Writers : Writing(v) /\ Writing(w) => v = w

\* The channel's variables have their types and one writer at a time writes.
StructureOK == TypeOK /\ MutualExclusion

\* Every page with a frame that a live reader has yet to read has its file:
\* cleanup never deletes a page a consumer still needs.
Live(r) == rpc[r] \in {"loaded", "open", "reading"}
PagesInUseKept ==
  \A r \in Readers : Live(r) =>
    \A i \in (cur[r] + 1)..Len(log) : log[i].pg \in files \ lost

\* The channel is the append-only log of FrameLog: every reader gets every
\* frame committed after its start, whole, once and in order.
Log == INSTANCE FrameLog WITH
         FrameIds <- FrameIds,
         log <- [i \in 1..Len(log) |-> log[i].id],
         joined <- {r \in Readers : rpc[r] \notin {"off", "exited"}}
ImplementsFrameLog == Log!LogSpec

\* A reader that stays alive gets every committed frame in the end.
EveryFrameDelivered ==
  \A r \in Readers, n \in FrameIds :
    (rpc[r] = "open" /\ Len(log) >= n) ~> (cur[r] >= n \/ rpc[r] = "exited")
=============================================================================
