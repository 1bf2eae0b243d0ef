----------------------------- MODULE UkiLayout ------------------------------
(***************************************************************************)
(* neet-uki: four payloads (.osrel, .cmdline, .initrd, .linux) become      *)
(* sections of a copy of an EFI stub.                                      *)
(*                                                                         *)
(* Addresses and sizes are u32 and wrap at Word, as the release build has  *)
(* it; the length of the file does not.  A payload is its length and may   *)
(* be empty.  Names, flags and the lines printed are left out.             *)
(***************************************************************************)
EXTENDS Integers, Sequences, FiniteSetsExt

CONSTANTS
  Stubs,         \* [pe, sections, headers, room, align, file_align, len]: whether
                 \* it is a PE image, its sections, where their headers begin,
                 \* SizeOfHeaders, both alignments and the length of the file
  Payloads,      \* sequences of lengths
  HeaderBytes,   \* the size of a section header, 40
  Word           \* u32 arithmetic is modulo Word

(* A PE image is aligned to powers of two, its sections are in memory and in
   the file, behind SizeOfHeaders, and nothing of it lies beyond 4 GiB. *)
ASSUME UkiAssumption ==
  /\ Word \in Nat \ {0} /\ HeaderBytes \in Nat
  /\ Stubs \subseteq [pe : BOOLEAN, headers : Nat, room : Nat, len : 0..(Word - 1),
                      align : 1..Word, file_align : 1..Word,
                      sections : Seq([v_addr : Nat, v_size : Nat, raw_ptr : Nat, raw_size : Nat])]
  /\ \A s \in Stubs :
       /\ Word % s.align = 0 /\ Word % s.file_align = 0 /\ s.room <= s.len
       /\ \A i \in 1..Len(s.sections) :
            /\ s.sections[i].v_addr + s.sections[i].v_size < Word
            /\ s.sections[i].raw_ptr + s.sections[i].raw_size <= s.len
            /\ s.sections[i].raw_size > 0 => s.room <= s.sections[i].raw_ptr
  /\ Payloads \subseteq Seq(Nat)

VARIABLES
  stub,          \* the stub that is read
  payload,       \* the lengths of the payloads
  phase,         \* "none", "scan", "add", "done" or "error"
  scanned,       \* the sections of the stub looked at
  vma,           \* next_vma, then current_vma
  raw,           \* current_raw
  added,         \* the headers written: [at, v_addr, v_size, raw_ptr, raw_size],
                 \* where at is the place of the header in the file
  out,           \* output.len()
  chunks,        \* where in output each payload lies: [lo, hi)
  image_size     \* SizeOfImage

ukiVars == <<stub, payload, phase, scanned, vma, raw, added, out, chunks, image_size>>

(* For a power of two !(align - 1) clears the remainder. *)
AlignUp(val, align) == (((val + align - 1) % Word) \div align) * align

(* Everything is read and the headers of the stub are looked at. *)
Read(s, lengths) ==
  /\ phase = "none"
  /\ stub' = s /\ payload' = lengths
  /\ phase' = IF s.pe THEN "scan" ELSE "error"
  /\ scanned' = 0 /\ vma' = 0 /\ raw' = 0 /\ added' = <<>> /\ out' = s.len
  /\ chunks' = <<>> /\ image_size' = 0

Existing == stub.sections[scanned + 1]

ExistingEnd == AlignUp((Existing.v_addr + Existing.v_size) % Word, stub.align)

(* Mutant: takes the sections to be in order. *)
ScanLast ==
  /\ phase = "scan" /\ scanned < Len(stub.sections)
  /\ scanned' = scanned + 1
  /\ vma' = ExistingEnd
  /\ UNCHANGED <<stub, payload, phase, raw, added, out, chunks, image_size>>

Scan ==
  /\ phase = "scan" /\ scanned < Len(stub.sections)
  /\ scanned' = scanned + 1
  /\ vma' = IF ExistingEnd > vma THEN ExistingEnd ELSE vma
  /\ UNCHANGED <<stub, payload, phase, raw, added, out, chunks, image_size>>

(* Mutant: the headers to come are not counted. *)
HasRoomSoFar == stub.headers + Len(stub.sections) * HeaderBytes <= stub.room

HasRoom == stub.headers + (Len(stub.sections) + Len(payload)) * HeaderBytes <= stub.room

NoRoom ==
  /\ phase = "scan" /\ scanned = Len(stub.sections) /\ ~HasRoom
  /\ phase' = "error"
  /\ UNCHANGED <<stub, payload, scanned, vma, raw, added, out, chunks, image_size>>

(* The copy of the stub is padded; data goes behind whatever it ends with. *)
Pad ==
  /\ phase = "scan" /\ scanned = Len(stub.sections) /\ HasRoom
  /\ phase' = "add"
  /\ out' = AlignUp(out, stub.file_align) /\ raw' = out'
  /\ UNCHANGED <<stub, payload, scanned, vma, added, chunks, image_size>>

Bytes == payload[Len(added) + 1]

Header ==
  LET v_size == Bytes % Word
  IN  [at |-> stub.headers + (Len(stub.sections) + Len(added)) * HeaderBytes,
       v_addr |-> vma, v_size |-> v_size,
       raw_ptr |-> raw, raw_size |-> AlignUp(v_size, stub.file_align)]

(* Mutant: the payload is not padded. *)
AddUnpadded ==
  /\ phase = "add" /\ Len(added) < Len(payload)
  /\ added' = Append(added, Header)
  /\ chunks' = Append(chunks, [lo |-> out, hi |-> out + Bytes])
  /\ out' = out + Bytes
  /\ vma' = AlignUp((vma + Header.v_size) % Word, stub.align)
  /\ raw' = (raw + Header.raw_size) % Word
  /\ UNCHANGED <<stub, payload, phase, scanned, image_size>>

Add ==
  /\ phase = "add" /\ Len(added) < Len(payload)
  /\ added' = Append(added, Header)
  /\ chunks' = Append(chunks, [lo |-> out, hi |-> out + Bytes])
  /\ out' = out + Bytes + ((Header.raw_size - Header.v_size) % Word)
  /\ vma' = AlignUp((vma + Header.v_size) % Word, stub.align)
  /\ raw' = (raw + Header.raw_size) % Word
  /\ UNCHANGED <<stub, payload, phase, scanned, image_size>>

(* NumberOfSections and SizeOfImage are updated and the file is written. *)
Write ==
  /\ phase = "add" /\ Len(added) = Len(payload)
  /\ phase' = "done"
  /\ image_size' = AlignUp(vma, stub.align)
  /\ UNCHANGED <<stub, payload, scanned, vma, raw, added, out, chunks>>

NoStub ==
  [pe |-> FALSE, sections |-> <<>>, headers |-> 0, room |-> 0, align |-> 1, file_align |-> 1,
   len |-> 0]

UkiInit ==
  /\ stub = NoStub /\ payload = <<>> /\ phase = "none"
  /\ scanned = 0 /\ vma = 0 /\ raw = 0 /\ added = <<>> /\ out = 0
  /\ chunks = <<>> /\ image_size = 0

UkiNext ==
  \/ \E s \in Stubs, lengths \in Payloads : Read(s, lengths)
  \/ Scan \/ NoRoom \/ Pad \/ Add \/ Write

UkiSpec == UkiInit /\ [][UkiNext]_ukiVars

-----------------------------------------------------------------------------
(* What is needed when numbers have no bound.  Beyond Word the program goes on
   with what is left of a number, and nothing is promised. *)
Rounded(n, align) == ((n + align - 1) \div align) * align

Sum(align) ==
  LET sum[i \in 0..Len(payload)] == IF i = 0 THEN 0 ELSE sum[i - 1] + Rounded(payload[i], align)
  IN  sum[Len(payload)]

MemoryEnd ==
  Max({0} \cup {Rounded(stub.sections[i].v_addr + stub.sections[i].v_size, stub.align) :
                  i \in 1..Len(stub.sections)})

InBounds ==
  /\ MemoryEnd + Sum(stub.align) < Word
  /\ Rounded(stub.len, stub.file_align) + Sum(stub.file_align) < Word

(* What is promised about: all that was added, or nothing. *)
Kept == IF InBounds THEN Len(added) ELSE 0

InMemory == INSTANCE Placement WITH
  Least  <- 0,
  arena  <- [base |-> MemoryEnd, limit |-> Word],
  placed <- [i \in 1..Kept |->
               [lo |-> added[i].v_addr, hi |-> added[i].v_addr + added[i].v_size]]

InFile == INSTANCE Placement WITH
  Least  <- 0,
  arena  <- [base |-> stub.len, limit |-> Word],
  placed <- [i \in 1..Kept |->
               [lo |-> added[i].raw_ptr, hi |-> added[i].raw_ptr + added[i].raw_size]]

(* The sections added lie one behind the other, behind every section of the
   stub in memory, in whatever order it has them, and behind all of it in the
   file (main.rs:197-276). *)
UkiPlaces == InMemory!Spec /\ InFile!Spec

(* A finished image has every payload where its header says and as long as it
   says, aligned as the stub asks, in the file to its end, and SizeOfImage covers
   every section. *)
HeadersPointAtData ==
  phase = "done" /\ InBounds =>
    /\ Len(added) = Len(payload)
    /\ \A i \in 1..Len(added) :
         /\ chunks[i] = [lo |-> added[i].raw_ptr, hi |-> added[i].raw_ptr + payload[i]]
         /\ added[i].v_size = payload[i] /\ added[i].raw_size >= payload[i]
         /\ added[i].v_addr % stub.align = 0 /\ added[i].raw_ptr % stub.file_align = 0
         /\ added[i].raw_ptr + added[i].raw_size <= out
         /\ added[i].v_addr + added[i].v_size <= image_size
    /\ MemoryEnd <= image_size /\ image_size % stub.align = 0

(* No header is written over anything: those added lie behind the headers of the
   stub and behind each other, before the data of every section of the stub and
   before every payload (main.rs:217-225, 237). *)
NothingOverwritten ==
  \A i \in 1..Len(added) :
    LET end == added[i].at + HeaderBytes
    IN  /\ stub.headers + Len(stub.sections) * HeaderBytes <= added[i].at
        /\ \A j \in 1..(i - 1) : added[j].at + HeaderBytes <= added[i].at
        /\ \A k \in 1..Len(stub.sections) :
             stub.sections[k].raw_size > 0 => end <= stub.sections[k].raw_ptr
        /\ InBounds => \A j \in 1..Len(chunks) : end <= chunks[j].lo
=============================================================================
