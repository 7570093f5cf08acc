----------------------------- MODULE HostLoader -----------------------------
(***************************************************************************)
(* The host's loader (HostLoaderApp/hid_bootloader_cli.c): it reads an     *)
(* Intel HEX file into an image, waits for the bootloader of the device,   *)
(* writes the blocks of the image that are used and starts the program.    *)
(*                                                                         *)
(* The file may change between two reads, and the device may appear, go or *)
(* fail a write at any time; a write whose answer is lost may have been    *)
(* done.  A record is its kind, with its checksum right or wrong.          *)
(***************************************************************************)
EXTENDS Integers, Sequences, FiniteSetsExt

CONSTANTS
  MAX_MEMORY_SIZE, code_size, block_size,
  UINT_SIZE,  \* 2^32: how many values an unsigned int has
  Files,      \* what may be on the disk: sequences of records [t, addr, bytes, ok]
              \* where t is "data", "ext" (addr is the new base), "end" or "text"
  MaxRuns     \* bound: times the loader is started

ASSUME SizesAssumption ==
  /\ block_size \in Nat \ {0} /\ code_size \in Nat
  /\ MAX_MEMORY_SIZE \in Nat /\ UINT_SIZE \in Nat \ {0}
ASSUME FilesAssumption ==
  \A f \in Files : f \in Seq([t : {"data", "ext", "end", "text"}, addr : Nat,
                              bytes : Seq(0..255), ok : BOOLEAN])
(* No record, above whatever base of its file, ends beyond the addresses of *)
(* an unsigned int: there the test of its range wraps, and its bytes would  *)
(* be stored outside of the image.                                          *)
ASSUME AddressesAssumption ==
  \A f \in Files : \A i, j \in DOMAIN f :
    f[i].addr + f[j].addr + Len(f[j].bytes) + 2 < UINT_SIZE
ASSUME RunsAssumption == MaxRuns \in Nat

VARIABLES
  pc,                         \* "idle", "read", "open", "reread", "program", "boot",
                              \* "done" or "dead" (with an error message)
  wait_for_device_to_appear, hard_reboot_device, reboot_after_programming,
  waited, addr,
  fp, line,                   \* the file being read, and the next line
  firmware_image,             \* Unset where firmware_mask is 0
  extended_addr,
  file,                       \* the file on the disk
  device,                     \* "bootloader", "program" (runs it), "gone"
  flash,
  runs

options == <<wait_for_device_to_appear, hard_reboot_device, reboot_after_programming>>
reader  == <<fp, line, firmware_image, extended_addr>>
world   == <<file, device, flash>>
vars    == <<pc, options, waited, addr, reader, world, runs>>

Unset == -1
Blank == 255
Memory == 0..MAX_MEMORY_SIZE - 1
Code   == 0..code_size - 1
Empty  == [a \in Memory |-> Unset]

Init ==
  /\ pc = "idle"
  /\ wait_for_device_to_appear = FALSE /\ hard_reboot_device = FALSE
  /\ reboot_after_programming = TRUE
  /\ waited = FALSE /\ addr = 0
  /\ fp = <<>> /\ line = 1 /\ firmware_image = Empty /\ extended_addr = 0
  /\ file \in Files /\ device = "program"
  /\ flash = [a \in Code |-> 0]    \* an older program
  /\ runs = 0

(* read_intel_hex, up to its loop; if the file cannot be opened the program *)
(* ends with an error.                                                      *)
BeginRead(step) ==
  /\ line' = 1 /\ firmware_image' = Empty /\ extended_addr' = 0
  /\ \/ fp' = file /\ pc' = step
     \/ fp' = fp /\ pc' = "dead"

(* The command line, with -w, -r and -n or without. *)
Start ==
  /\ pc \in {"idle", "done", "dead"} /\ runs < MaxRuns
  /\ runs' = runs + 1
  /\ wait_for_device_to_appear' \in BOOLEAN
  /\ hard_reboot_device' \in BOOLEAN
  /\ reboot_after_programming' \in BOOLEAN
  /\ waited' = FALSE /\ addr' = 0
  /\ BeginRead("read")
  /\ UNCHANGED world

(* parse_hex_line.  The range of a record is tested whatever its kind; one *)
(* that sets the base has two bytes.  A base whose checksum is wrong is    *)
(* ignored; data whose checksum is wrong is an error.                      *)
Parse(rec) ==
  LET from == extended_addr + IF rec.t = "data" THEN rec.addr ELSE 0
      len  == CASE rec.t = "data" -> Len(rec.bytes) [] rec.t = "ext" -> 2 [] OTHER -> 0
      span == from..from + len - 1
  IN  IF rec.t = "text" \/ (from + len) % UINT_SIZE >= MAX_MEMORY_SIZE
      THEN pc' = "dead" /\ UNCHANGED reader
      ELSE /\ firmware_image' = [a \in Memory |->
                IF rec.t = "data" /\ a \in span THEN rec.bytes[a - from + 1]
                ELSE firmware_image[a]]
           /\ extended_addr' = IF rec.t = "ext" /\ rec.ok THEN rec.addr ELSE extended_addr
           /\ pc' = IF rec.t = "data" /\ ~rec.ok THEN "dead" ELSE pc
           /\ line' = IF rec.t = "end" THEN Len(fp) + 1 ELSE line + 1
           /\ UNCHANGED fp

ParseLine ==
  /\ pc \in {"read", "reread"} /\ line <= Len(fp)
  /\ Parse(fp[line])
  /\ UNCHANGED <<options, waited, addr, world, runs>>

(* The end of the file, or its end record.  The first read comes before    *)
(* the device is looked for.                                               *)
EndRead ==
  /\ pc \in {"read", "reread"} /\ line > Len(fp)
  /\ pc' = IF pc = "read" THEN "open" ELSE "program"
  /\ UNCHANGED <<options, waited, addr, reader, world, runs>>

(* teensy_open finds the bootloader.  If the program had to wait for it,   *)
(* the file is read again: perhaps it has changed.                         *)
Open ==
  /\ pc = "open" /\ device = "bootloader"
  /\ IF waited THEN BeginRead("reread") ELSE pc' = "program" /\ UNCHANGED reader
  /\ UNCHANGED <<options, waited, addr, world, runs>>

(* Or it does not, or cannot claim it: the other device is asked, once, to *)
(* reset this one, and then, or with -w, the search goes on.               *)
NotFound ==
  /\ pc = "open"
  /\ \E rebooted \in BOOLEAN :
       /\ rebooted => hard_reboot_device
       /\ hard_reboot_device' = FALSE
       /\ wait_for_device_to_appear' = (wait_for_device_to_appear \/ rebooted)
       /\ device' = IF rebooted /\ device = "program" THEN "bootloader" ELSE device
       /\ IF (hard_reboot_device /\ ~rebooted) \/ ~wait_for_device_to_appear'
          THEN pc' = "dead" /\ UNCHANGED waited
          ELSE waited' = TRUE /\ UNCHANGED pc
  /\ UNCHANGED <<reboot_after_programming, addr, reader, file, flash, runs>>

(* ihex_bytes_within_range and ihex_get_data for the block at addr. *)
Block == addr..addr + block_size - 1

Used == addr + block_size <= MAX_MEMORY_SIZE /\ \E a \in Block : firmware_image[a] # Unset

Data(a) ==
  IF addr + block_size >= MAX_MEMORY_SIZE \/ firmware_image[a] = Unset
  THEN Blank ELSE firmware_image[a]

(* Mutant: a block that is not used is looked at again and again. *)
SkipStays ==
  /\ pc = "program" /\ addr < code_size
  /\ addr > 0 /\ ~Used
  /\ UNCHANGED <<pc, addr, options, waited, reader, world, runs>>

(* A block that is not used is skipped; the first one never is, *)
Skip ==
  /\ pc = "program" /\ addr < code_size
  /\ addr > 0 /\ ~Used
  /\ addr' = addr + block_size
  /\ UNCHANGED <<pc, options, waited, reader, world, runs>>

(* since writing it erases the chip (external). *)
Written ==
  [a \in Code |-> IF a \in Block THEN Data(a) ELSE IF addr = 0 THEN Blank ELSE flash[a]]

(* Mutant: a write that fails does not end the program. *)
WriteBlockUnchecked ==
  /\ pc = "program" /\ addr < code_size
  /\ addr = 0 \/ Used
  /\ flash' \in {flash} \cup (IF device = "bootloader" THEN {Written} ELSE {})
  /\ addr' = addr + block_size /\ pc' = pc
  /\ UNCHANGED <<options, waited, reader, file, device, runs>>

(* teensy_write: an error, which ends the program, may be a lost answer. *)
WriteBlock ==
  /\ pc = "program" /\ addr < code_size
  /\ addr = 0 \/ Used
  /\ \/ /\ device = "bootloader" /\ flash' = Written
        /\ addr' = addr + block_size /\ pc' = pc
     \/ /\ flash' \in {flash} \cup (IF device = "bootloader" THEN {Written} ELSE {})
        /\ pc' = "dead" /\ UNCHANGED addr
  /\ UNCHANGED <<options, waited, reader, file, device, runs>>

Programmed ==
  /\ pc = "program" /\ addr >= code_size
  /\ pc' = IF reboot_after_programming THEN "boot" ELSE "done"
  /\ UNCHANGED <<options, waited, addr, reader, world, runs>>

(* The block that starts the program; the answer is not looked at. *)
Boot ==
  /\ pc = "boot"
  /\ device' \in {device} \cup (IF device = "bootloader" THEN {"program"} ELSE {})
  /\ pc' = "done"
  /\ UNCHANGED <<options, waited, addr, reader, file, flash, runs>>

Loader ==
  \/ ParseLine \/ EndRead \/ Open \/ NotFound
  \/ Skip \/ WriteBlock \/ Programmed \/ Boot

-----------------------------------------------------------------------------
(* The user and the device (external): the button, the cable, the compiler *)

PressReset ==
  /\ device = "program" /\ device' = "bootloader"
  /\ UNCHANGED <<pc, options, waited, addr, reader, file, flash, runs>>

Unplug ==
  /\ device # "gone" /\ device' = "gone"
  /\ UNCHANGED <<pc, options, waited, addr, reader, file, flash, runs>>

Replug ==
  /\ device = "gone" /\ device' = "bootloader"
  /\ UNCHANGED <<pc, options, waited, addr, reader, file, flash, runs>>

Rebuild ==
  /\ file' \in Files \ {file}
  /\ UNCHANGED <<pc, options, waited, addr, reader, device, flash, runs>>

Next == Loader \/ Start \/ PressReset \/ Unplug \/ Replug \/ Rebuild

Spec == Init /\ [][Next]_vars

(* A program that has been started goes on. *)
FairSpec == Spec /\ WF_vars(Loader)

-----------------------------------------------------------------------------
(* What a file says, without reading it line by line: the byte at a is the *)
(* one of the last record before the end that covers a, and a record is at *)
(* its address above the last good base before it.                         *)
Records(f) ==
  LET ends == {i \in DOMAIN f : f[i].t = "end"}
  IN  IF ends = {} THEN DOMAIN f ELSE 1..Min(ends) - 1

Origin(f, i) ==
  LET bases == {j \in 1..i - 1 : f[j].t = "ext" /\ f[j].ok}
  IN  f[i].addr + IF bases = {} THEN 0 ELSE f[Max(bases)].addr

Covering(f, a) ==
  {i \in Records(f) :
     f[i].t = "data" /\ a \in Origin(f, i)..Origin(f, i) + Len(f[i].bytes) - 1}

Says(f, a) ==
  IF Covering(f, a) = {} THEN Blank
  ELSE LET i == Max(Covering(f, a)) IN f[i].bytes[a - Origin(f, i) + 1]

Clean(f) == \A i \in Records(f) : f[i].t # "text" /\ (f[i].t = "data" => f[i].ok)

(* The loader starts a program, and ends without an error, only when the   *)
(* flash holds what the file says, in every byte: nothing of the older     *)
(* program is left, no write was lost, and no part of a broken file is     *)
(* there; whatever failed in the runs before.  For a chip whose code       *)
(* leaves a block of the memory free: Data blanks the last one.            *)
FlashIsTheFile ==
  pc \in {"boot", "done"} => Clean(fp) /\ \A a \in Code : flash[a] = Says(fp, a)

(* A run ends, or waits for a device as it was told to.                    *)
RunsEnd ==
  pc # "idle" ~> (pc \in {"done", "dead"} \/ (pc = "open" /\ wait_for_device_to_appear))
=============================================================================
