----------------------------- MODULE BackupFile ------------------------------
(***************************************************************************)
(* core/src/cartridge/backup/backup_file.rs: a buffer with, when a path is *)
(* given, a file behind it that every write goes through to.  A file and a *)
(* buffer are functions on 0..n-1; NoFile is a file that does not exist.   *)
(* A cell is what one command of the chip above writes.                    *)
(***************************************************************************)
EXTENDS Integers, FiniteSets

CONSTANTS Cell,     \* the values of a cell
          Erased    \* 0xff in every byte of a cell

ASSUME BackupAssumption == Erased \in Cell

VARIABLES process,  \* "on", "off" or "panicked": the emulator's process
          path,     \* a path was given: there is a file
          file,     \* what the file system holds there; it outlives the process
          buffer

backupVars == <<path, file, buffer>>

NoFile == <<>>

Blank(size) == [i \in 0..(size - 1) |-> Erased]

Resized(cells, size) ==
  [i \in 0..(size - 1) |-> IF i \in DOMAIN cells THEN cells[i] ELSE Erased]

Length(cells) == Cardinality(DOMAIN cells)

\* BackupFile::new; Clone and Deserialize call it too, with the size they kept.
OpenBackup(size) ==
  /\ file' = IF path /\ file = NoFile THEN Blank(size) ELSE file
  /\ buffer' = IF path THEN Resized(file', size) ELSE Blank(size)
  /\ UNCHANGED path

\* write_all at the start of the file: what lies behind the buffer's end stays.
Flushed(cells) ==
  [i \in DOMAIN file \cup DOMAIN cells |-> IF i \in DOMAIN cells THEN cells[i] ELSE file[i]]

WriteBackup(i, value) ==
  /\ buffer' = [buffer EXCEPT ![i] = value]
  /\ file' = IF path THEN [file EXCEPT ![i] = value] ELSE file
  /\ UNCHANGED path

ResizeWithoutFlush(size) ==
  /\ buffer' = Resized(buffer, size)
  /\ UNCHANGED <<file, path>>

ResizeBackup(size) ==
  /\ buffer' = Resized(buffer, size)
  /\ file' = IF path THEN Flushed(buffer') ELSE file
  /\ UNCHANGED path
=============================================================================
