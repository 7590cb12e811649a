---------------------------- MODULE TlvFlashBank ----------------------------
(***************************************************************************)
(* The tag-length-value store in two banks of flash memory                 *)
(* (platform/embedded/btstack_tlv_flash_bank.c).  A bank is a log of       *)
(* entries; when it is full, the live entries move to the other bank,      *)
(* which becomes current when its header is written.  Every function of    *)
(* the C file is an operator on a session (the flash as the function sees  *)
(* it, the flash accesses it has made, current_bank and write_offset); a   *)
(* call fixes the flash accesses, and these happen one at a time, so that  *)
(* the power may fail between any two of them.                             *)
(*                                                                         *)
(* Flash memory is counted in cells of 8 bytes: the bank header is one     *)
(* cell, the header of an entry is one, values are whole cells.  Any cell  *)
(* can be read as an entry header, a tag word and a length word, which is  *)
(* what the code does when it follows a wrong offset.                      *)
(***************************************************************************)
EXTENDS Integers, SequencesExt, FiniteSetsExt

CONSTANTS
    Tag,          \* tags the application uses
    Value,        \* values it stores: sequences of cells
    Builds,       \* builds of the file that are considered, a set of modes
    Deletable,    \* tags the application deletes, for each mode
    BankSize,     \* cells of a bank
    CopyBuffer,   \* cells of copy_buffer in migrate (32 bytes: 4)
    ZeroBuffer    \* cells of zero_buffer in delete_tag_until_offset (4)

\* How a build deletes an entry:
\*   "tag"   overwrite the tag (alignment <= 4)
\*   "entry" overwrite the entry (larger alignment)
\*   "field" ENABLE_TLV_FLASH_EXPLICIT_DELETE_FIELD
\*   "once"  ENABLE_TLV_FLASH_WRITE_ONCE
Modes == {"tag", "entry", "field", "once"}

VARIABLES
    mode,     \* the build, chosen once and for all
    flash,    \* both banks
    self,     \* current_bank and write_offset, Off without power
    job,      \* what is left to do of the function that runs, Idle if none
    call,     \* the store or delete under way
    result,   \* how the last one ended
    durable   \* auxiliary: what init_instance would find in flash now

vars == << mode, flash, self, job, call, result, durable >>

FF    == 15     \* 0xffffffff, a 32 bit word of erased flash
Magic == 14     \* 'BTstack'

Word == 0..FF
Cell == [tag : Word, len : Word]

ASSUME TagAssumption == Tag \subseteq 1..13
ASSUME BuildsAssumption == Builds \subseteq Modes
ASSUME DeletableAssumption == Deletable \in [Modes -> SUBSET Tag]
ASSUME ValueAssumption == Value \subseteq Seq(Cell) \ {<< >>}
ASSUME BankSizeAssumption == BankSize \in Nat \ {0, 1}
ASSUME BufferAssumption ==
    CopyBuffer \in Nat \ {0} /\ ZeroBuffer \in Nat \ {0}

Erased == [tag |-> FF, len |-> FF]
Zero   == [tag |-> 0, len |-> 0]

\* The delete field: four bytes of zero, padded with 0xff.
DeleteMark == [tag |-> 0, len |-> FF]

\* get_tag returns 0: there is no entry, or an empty one.
Absent == << >>

Banks == {0, 1}
Bank  == [0..BankSize - 1 -> Cell]

-----------------------------------------------------------------------------
(* Flash accesses (hal_flash_bank) and sessions.                           *)

EraseOp(bank) == [op |-> "erase", bank |-> bank, at |-> 0, cells |-> << >>]

WriteOp(bank, at, cells) ==
    [op |-> "write", bank |-> bank, at |-> at, cells |-> cells]

\* Four bytes of zero over the tag word of an entry.
ClearTagOp(bank, at) ==
    [op |-> "clear", bank |-> bank, at |-> at, cells |-> << >>]

Apply(f, o) ==
    [f EXCEPT ![o.bank] =
        CASE o.op = "erase" -> [i \in 0..BankSize - 1 |-> Erased]
          [] o.op = "clear" -> [@ EXCEPT ![o.at].tag = 0]
          [] o.op = "write" ->
               [i \in 0..BankSize - 1 |->
                   IF i - o.at + 1 \in DOMAIN o.cells
                   THEN o.cells[i - o.at + 1] ELSE @[i]]]

Session(f) == [flash |-> f, ops |-> << >>, bank |-> 0, offset |-> 0]

Access(t, o) == [t EXCEPT !.flash = Apply(@, o), !.ops = Append(@, o)]

\* A buffer of size cells is written at a time.
ChunkedWrite(t, bank, at, cells, size) ==
    LET count == (Len(cells) + size - 1) \div size
        Piece(k) == SubSeq(cells, (k - 1) * size + 1,
                           IF k * size < Len(cells) THEN k * size
                                                    ELSE Len(cells))
    IN  FoldLeft(LAMBDA acc, k :
                    Access(acc, WriteOp(bank, at + (k - 1) * size, Piece(k))),
                 t, [k \in 1..count |-> k])

\* Reads behind the end of the bank give nothing new.
ReadCells(b, at, n) ==
    [i \in 1..n |-> IF at + i - 1 < BankSize THEN b[at + i - 1] ELSE Erased]

-----------------------------------------------------------------------------
(* The iterator over the entries of a bank.                                *)

\* entry_header_len + delete_tag_len
HeaderCells == IF mode = "field" THEN 2 ELSE 1

aligned_entry_size(len) == HeaderCells + len

iterator_fetch_tag(b, at) ==
    IF at + HeaderCells >= BankSize THEN FF
    ELSE IF mode = "field" /\ b[at + 1].tag = 0 THEN 0 ELSE b[at].tag

\* All entries from the first to the end of the log, and where that is.
Iterate(b) ==
    LET from[at \in Nat] ==
            IF at >= BankSize \/ iterator_fetch_tag(b, at) = FF
            THEN [entries |-> << >>, end |-> at]
            ELSE LET entry == [at |-> at, tag |-> iterator_fetch_tag(b, at),
                               len |-> b[at].len]
                     rest == from[at + aligned_entry_size(entry.len)]
                 IN  [entries |-> << entry >> \o rest.entries,
                      end |-> rest.end]
    IN  from[1]

ValueAt(b, entry) == ReadCells(b, entry.at + HeaderCells, entry.len)

get_tag(b, tag) ==
    LET entries == Iterate(b).entries
        Is(entry) == entry.tag = tag
        i == IF mode = "once" THEN SelectLastInSeq(entries, Is)
                                    ELSE SelectInSeq(entries, Is)
    IN  IF i = 0 THEN Absent ELSE ValueAt(b, entries[i])

-----------------------------------------------------------------------------
(* Bank headers.                                                           *)

Valid(b) == b[0].tag = Magic

get_latest_bank(f) ==
    LET e0 == f[0][0].len
        e1 == f[1][0].len
    IN  CASE ~Valid(f[0]) /\ ~Valid(f[1]) -> -1
          [] Valid(f[0]) /\ ~Valid(f[1]) -> 0
          [] ~Valid(f[0]) /\ Valid(f[1]) -> 1
          [] OTHER -> IF e0 = (e1 + 1) % 4 THEN 0
                      ELSE IF e1 = (e0 + 1) % 4 THEN 1 ELSE -1

write_header(t, bank, epoch) ==
    Access(t, WriteOp(bank, 0, << [tag |-> Magic, len |-> epoch] >>))

\* Mutant: the epoch of the old bank is copied.
MutantNextEpoch(epoch) == epoch

NextEpoch(epoch) == (epoch + 1) % 4

test_erased(b, at) == \A i \in 0..BankSize - 1 : i >= at => b[i] = Erased

erase_bank(t, bank) ==
    IF test_erased(t.flash[bank], 0) THEN t ELSE Access(t, EraseOp(bank))

-----------------------------------------------------------------------------
(* Migration and deletion.                                                 *)

\* Entries that migration copies: not deleted, and with "once" the newest.
LiveEntries(b) ==
    LET entries == Iterate(b).entries
        Newest(entry) == \A i \in DOMAIN entries :
                            entries[i].at > entry.at => entries[i].tag # entry.tag
    IN  SelectSeq(entries, LAMBDA entry : /\ entry.tag # 0
                                          /\ mode = "once" => Newest(entry))

CopyEntry(t, next, entry) ==
    LET b == t.flash[t.bank]
        copied ==
            IF mode = "field"
            THEN ChunkedWrite(Access(t, WriteOp(next, t.offset, << b[entry.at] >>)),
                              next, t.offset + HeaderCells, ValueAt(b, entry),
                              CopyBuffer)
            ELSE ChunkedWrite(t, next, t.offset,
                     ReadCells(b, entry.at, aligned_entry_size(entry.len)),
                     CopyBuffer)
    IN  [copied EXCEPT !.offset = @ + aligned_entry_size(entry.len)]

migrate(t) ==
    LET next  == 1 - t.bank
        epoch == NextEpoch(t.flash[t.bank][0].len)
        moved == FoldLeft(LAMBDA acc, entry : CopyEntry(acc, next, entry),
                          [erase_bank(t, next) EXCEPT !.offset = 1],
                          LiveEntries(t.flash[t.bank]))
    IN  [write_header(moved, next, epoch) EXCEPT !.bank = next]

DeleteEntry(t, entry) ==
    LET size == aligned_entry_size(entry.len)
    IN  CASE mode = "field" ->
               Access(t, WriteOp(t.bank, entry.at + 1, << DeleteMark >>))
          [] mode = "tag" ->
               Access(t, ClearTagOp(t.bank, entry.at))
          [] OTHER ->
               ChunkedWrite(t, t.bank, entry.at, [i \in 1..size |-> Zero],
                            ZeroBuffer)

delete_tag_until_offset(t, tag, offset) ==
    FoldLeft(DeleteEntry, t,
             SelectSeq(Iterate(t.flash[t.bank]).entries,
                       LAMBDA entry : entry.tag = tag /\ entry.at < offset))

-----------------------------------------------------------------------------
(* The interface: store_tag, delete_tag, init_instance.                    *)

\* Mutant: the header is forgotten.
MutantHasSpace(t, value) == t.offset + Len(value) <= BankSize

HasSpace(t, value) == t.offset + HeaderCells + Len(value) <= BankSize

EntryHeader(tag, value) == << [tag |-> tag, len |-> Len(value)] >>

WriteValue(t, value) ==
    IF value = << >> THEN t
    ELSE Access(t, WriteOp(t.bank, t.offset + HeaderCells, value))

WriteEntryHeader(t, tag, value) ==
    Access(t, WriteOp(t.bank, t.offset, EntryHeader(tag, value)))

\* Value first, then the header that makes the entry valid.
AppendEntry(t, tag, value) ==
    WriteEntryHeader(WriteValue(t, value), tag, value)

\* Mutant: the old entry is deleted first.
MutantReplaceEntry(t, tag, value) ==
    AppendEntry(delete_tag_until_offset(t, tag, t.offset), tag, value)

\* Mutant: the older entries stay.
MutantKeepOlder(t, tag, value) == AppendEntry(t, tag, value)

\* The older entries go when the new one is in place.
ReplaceEntry(t, tag, value) ==
    LET appended == AppendEntry(t, tag, value)
    IN  IF mode = "once" THEN appended
        ELSE delete_tag_until_offset(appended, tag, t.offset)

\* Mutant: no migration, a full log stays full.
MutantMakeSpace(t, value) == t

MakeSpace(t, value) == IF HasSpace(t, value) THEN t ELSE migrate(t)

\* The session after the call, and what the call returns.
store_tag(t, tag, value) ==
    LET ready == MakeSpace(t, value)
    IN  IF ~HasSpace(ready, value) THEN [session |-> ready, status |-> "full"]
        ELSE [session |-> [ReplaceEntry(ready, tag, value)
                             EXCEPT !.offset = @ + aligned_entry_size(Len(value))],
              status |-> "ok"]

delete_tag(t, tag) ==
    IF mode = "once" THEN store_tag(t, tag, << >>)
    ELSE [session |-> delete_tag_until_offset(t, tag, t.offset),
          status |-> "ok"]

\* The power may have failed before the older entry was deleted.
DropOlder(t, entries) ==
    IF mode = "once" \/ entries = << >> \/ Last(entries).tag = 0 THEN t
    ELSE delete_tag_until_offset(t, Last(entries).tag, Last(entries).at)

\* Mutant: the rest of the bank is taken to be erased.
MutantCleanRest(t) == t

\* The power may have failed after the value and before the header.
CleanRest(t) ==
    IF test_erased(t.flash[t.bank], t.offset) THEN t ELSE migrate(t)

StartOver(t) ==
    [write_header(erase_bank(t, 0), 0, 0) EXCEPT !.bank = 0, !.offset = 1]

init_instance(t) ==
    LET bank == get_latest_bank(t.flash)
        log == Iterate(t.flash[bank])
        found == [t EXCEPT !.bank = bank, !.offset = log.end]
    IN  IF bank = -1 \/ log.end > BankSize THEN StartOver(t)
        ELSE CleanRest(DropOlder(found, log.entries))

-----------------------------------------------------------------------------
(* The store at work: a call computes its flash accesses from what it      *)
(* reads, and they reach the flash one after the other.                    *)

Off  == [bank |-> -1, offset |-> 0]
Idle == [ops |-> << >>, bank |-> -1, offset |-> 0, status |-> "none"]

Job(t, status) ==
    [ops |-> t.ops, bank |-> t.bank, offset |-> t.offset, status |-> status]

Running == [Session(flash) EXCEPT !.bank = self.bank, !.offset = self.offset]

\* What a reader finds: now, and after the power has failed and come back.
View(f, bank) == [tag \in Tag |-> get_tag(f[bank], tag)]

Recovered(f) ==
    LET t == init_instance(Session(f)) IN View(t.flash, t.bank)

Store == INSTANCE TlvStore WITH db <- durable

Init ==
    /\ mode \in Builds
    /\ flash = [bank \in Banks |-> [i \in 0..BankSize - 1 |-> Erased]]
    /\ self = Off
    /\ job = Idle
    /\ call = Store!NoCall
    /\ result = "power"
    /\ durable = [tag \in Tag |-> Absent]

Boot ==
    /\ self = Off /\ job = Idle
    /\ job' = Job(init_instance(Session(flash)), "ok")
    /\ UNCHANGED << mode, flash, self, call, result, durable >>

BeginCall(tag, value, outcome) ==
    /\ self # Off /\ job = Idle
    /\ job' = Job(outcome.session, outcome.status)
    /\ call' = [tag |-> tag, value |-> value]
    /\ result' = "none"
    /\ UNCHANGED << mode, flash, self, durable >>

StoreTag(tag, value) == BeginCall(tag, value, store_tag(Running, tag, value))

DeleteTag(tag) == BeginCall(tag, Absent, delete_tag(Running, tag))

FlashAccess ==
    /\ job.ops # << >>
    /\ flash' = Apply(flash, Head(job.ops))
    /\ job' = [job EXCEPT !.ops = Tail(@)]
    /\ durable' = Recovered(flash')
    /\ UNCHANGED << mode, self, call, result >>

Return ==
    /\ job # Idle /\ job.ops = << >>
    /\ self' = [bank |-> job.bank, offset |-> job.offset]
    /\ job' = Idle
    /\ call' = Store!NoCall
    /\ result' = IF call = Store!NoCall THEN result ELSE job.status
    /\ UNCHANGED << mode, flash, durable >>

PowerFails ==
    /\ self # Off \/ job # Idle
    /\ self' = Off
    /\ job' = Idle
    /\ call' = Store!NoCall
    /\ result' = "power"
    /\ UNCHANGED << mode, flash, durable >>

Next ==
    \/ Boot
    \/ \E tag \in Tag, value \in Value : StoreTag(tag, value)
    \/ \E tag \in Deletable[mode] : DeleteTag(tag)
    \/ FlashAccess
    \/ Return
    \/ PowerFails

Spec == Init /\ [][Next]_vars

-----------------------------------------------------------------------------
(* Properties.                                                             *)

Operation ==
    [op : {"erase", "clear", "write"}, bank : Banks, at : 0..BankSize - 1,
     cells : Seq(Cell)]

\* Types: banks hold whole cells, the write offset stays in the bank (it may
\* be its end), and every flash access is inside a bank.
TlvTypeOK ==
    /\ flash \in [Banks -> Bank]
    /\ self = Off \/ self \in [bank : Banks, offset : 1..BankSize]
    /\ job.ops \in Seq(Operation)
    /\ \A i \in DOMAIN job.ops :
            job.ops[i].at + Len(job.ops[i].cells) <= BankSize
    /\ result \in {"none", "ok", "full", "power"}

\* A store or delete is atomic and durable: whatever flash access the power
\* fails after, init_instance finds every value stored before, and of the
\* interrupted call either all or nothing (store_tag: value, header, delete
\* of the old entry, migration to the other bank).
ImplementsStore == Store!StoreSpec

\* While the store is idle, get_tag on the current bank returns what a
\* restart would find: nothing lives in RAM only, and the older entry of a
\* tag never shadows the newer one.
LiveViewIsDurable ==
    self # Off /\ job = Idle => View(flash, self.bank) = durable

\* The rule of the flash driver (hal_flash_bank_memory_write: "writing
\* something other than 0x00 is only allowed once"; and where zero cannot be
\* written over a value either, with the delete field and with write once,
\* hal_flash_bank.h: "Each offset can only be written once after bank was
\* erased"), for the next access to the flash, in whatever state a power
\* failure has left it.
WriteOnErasedOnly ==
    job.ops # << >> =>
        LET o == Head(job.ops)
        IN  /\ o.op = "clear" => mode = "tag"
            /\ \A i \in DOMAIN o.cells :
                  \/ flash[o.bank][o.at + i - 1] = Erased
                  \/ mode \in {"tag", "entry"} /\ o.cells[i] = Zero

\* get_latest_bank: two valid banks have consecutive epochs; other pairs
\* "must not happen", the store would start over.
EpochsAdjacent ==
    Valid(flash[0]) /\ Valid(flash[1]) => get_latest_bank(flash) # -1

\* store_tag gives up only when the values that are live and the new one do
\* not fit in an erased bank: deleted, replaced and half written entries are
\* all reclaimed by the migration it tries first.
FullMeansFull ==
    job.status = "full" =>
        MapThenSumSet(
            LAMBDA tag : IF durable[tag] = Absent THEN 0
                         ELSE aligned_entry_size(Len(durable[tag])), Tag)
          + aligned_entry_size(Len(call.value)) > BankSize - 1

\* init_instance: "this handles the unlikely case where MCU did reset after
\* new value + header was written but before delete did complete": once only
\* the deletion of the old entry is left, a restart finds the new value.
NewValueSurvivesReset ==
    call # Store!NoCall /\ call.value # Absent /\ job.status = "ok"
      /\ (\A i \in DOMAIN job.ops : Range(job.ops[i].cells) \subseteq {Zero})
    => durable[call.tag] = call.value
=============================================================================
