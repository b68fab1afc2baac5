------------------------------- MODULE FreeMap -------------------------------
(***************************************************************************)
(* The free map, taken from and given back to by threads that share no     *)
(* lock: filesys/free-map.c over lib/kernel/bitmap.c.                      *)
(*                                                                         *)
(* Every caller asks for one sector.  Setting or clearing a bit is one     *)
(* instruction, a test of it is another, and bitmap_write() has the bits   *)
(* copied to the file byte by byte, a load and a store each.  A byte has   *)
(* one bit here: the others in it are those of other sectors.              *)
(***************************************************************************)
EXTENDS Integers, FiniteSets

CONSTANTS Caller, BIT_CNT

ASSUME FreeMapAssumption == BIT_CNT \in Nat \ {0}

VARIABLES bits,       \* free_map: the sectors in use
          on_file,    \* the same in free_map_file
          doing,      \* what each caller is at
          sector,     \* the one it found, took or releases
          pos,        \* the bit it tests next or copies next
          byte,       \* what memcpy() loaded
          panicked,
          owned,      \* history: what each caller was given and has not released
          robbed,     \* history: the part of it that another owner has released
          overtaken,  \* history: callers whose free bit another one took
          raced,      \* history: sectors that an overtaken caller took as well
          torn        \* history: bits last stored from a load that was overtaken

free_map_vars ==
  <<bits, on_file, doing, sector, pos, byte, panicked, owned, robbed, overtaken, raced, torn>>
owners == <<owned, robbed, overtaken, raced>>

Bit == 0..(BIT_CNT - 1)

FreeMapInit ==
  /\ bits = [s \in Bit |-> FALSE] /\ on_file = [s \in Bit |-> FALSE]
  /\ doing = [c \in Caller |-> "idle"]
  /\ sector = [c \in Caller |-> 0] /\ pos = [c \in Caller |-> 0]
  /\ byte = [c \in Caller |-> FALSE]
  /\ panicked = FALSE
  /\ owned = [c \in Caller |-> {}] /\ robbed = [c \in Caller |-> {}]
  /\ overtaken = {} /\ raced = {} /\ torn = {}

Proceed(c, what) == doing' = [doing EXCEPT ![c] = what]

free_map_allocate(c) ==
  /\ doing[c] = "idle"
  /\ Proceed(c, "scan")
  /\ UNCHANGED <<bits, on_file, sector, pos, byte, panicked, owners, torn>>

\* bitmap_scan() tests the bit, and goes on to the next or is done.
bitmap_scan(c) ==
  /\ doing[c] = "scan" /\ pos[c] \in Bit
  /\ \/ /\ bits[pos[c]]
        /\ pos' = [pos EXCEPT ![c] = @ + 1]
        /\ UNCHANGED <<doing, sector>>
     \/ /\ ~bits[pos[c]]
        /\ Proceed(c, "mark")
        /\ sector' = [sector EXCEPT ![c] = pos[c]]
        /\ pos' = [pos EXCEPT ![c] = 0]
  /\ UNCHANGED <<bits, on_file, byte, panicked, owners, torn>>

\* BITMAP_ERROR: free_map_allocate() returns false.
ScanFails(c) ==
  /\ doing[c] = "scan" /\ pos[c] = BIT_CNT
  /\ Proceed(c, "idle")
  /\ pos' = [pos EXCEPT ![c] = 0]
  /\ UNCHANGED <<bits, on_file, sector, byte, panicked, owners, torn>>

\* The caller takes s, and so may those that have found it free as well.
Takes(c, s) ==
  /\ owned' = [owned EXCEPT ![c] = @ \cup {s}]
  /\ robbed' = [robbed EXCEPT ![c] = @ \ {s}]
  /\ raced' = IF c \in overtaken /\ \E d \in Caller : s \in owned[d] THEN raced \cup {s} ELSE raced
  /\ overtaken' = (overtaken \ {c}) \cup {d \in Caller \ {c} : doing[d] = "mark" /\ sector[d] = s}

\* bitmap_scan_and_flip() sets the bit it found clear, whether or not it still is.
bitmap_mark(c) ==
  /\ doing[c] = "mark"
  /\ bits' = [bits EXCEPT ![sector[c]] = TRUE]
  /\ Takes(c, sector[c])
  /\ Proceed(c, "load")
  /\ UNCHANGED <<on_file, sector, pos, byte, panicked, torn>>

\* free_map_release() of one of the caller's sectors, to the assertion.
free_map_release(c, s) ==
  /\ doing[c] = "idle" /\ s \in owned[c]
  /\ \/ /\ ~bits[s]
        /\ panicked' = TRUE
        /\ UNCHANGED <<doing, sector>>
     \/ /\ bits[s]
        /\ Proceed(c, "reset")
        /\ sector' = [sector EXCEPT ![c] = s]
        /\ UNCHANGED panicked
  /\ UNCHANGED <<bits, on_file, pos, byte, owners, torn>>

\* The caller no longer has s, nor can another one count on it.
Releases(c, s) ==
  /\ owned' = [owned EXCEPT ![c] = @ \ {s}]
  /\ robbed' = [d \in Caller |-> IF d # c /\ s \in owned[d] THEN robbed[d] \cup {s}
                                 ELSE robbed[d] \ (IF d = c THEN {s} ELSE {})]
  /\ raced' = IF \A d \in Caller \ {c} : s \notin owned[d] THEN raced \ {s} ELSE raced
  /\ UNCHANGED overtaken

\* Mutant of bitmap_reset: free_map_release() returns without bitmap_write().
bitmap_reset_unsaved(c) ==
  /\ doing[c] = "reset"
  /\ bits' = [bits EXCEPT ![sector[c]] = FALSE]
  /\ Releases(c, sector[c])
  /\ Proceed(c, "idle")
  /\ UNCHANGED <<on_file, sector, pos, byte, panicked, torn>>

bitmap_reset(c) ==
  /\ doing[c] = "reset"
  /\ bits' = [bits EXCEPT ![sector[c]] = FALSE]
  /\ Releases(c, sector[c])
  /\ Proceed(c, "load")
  /\ UNCHANGED <<on_file, sector, pos, byte, panicked, torn>>

\* bitmap_write(): inode_write_at() has memcpy() copy the bits to the cached block.
Load(c) ==
  /\ doing[c] = "load" /\ pos[c] \in Bit
  /\ byte' = [byte EXCEPT ![c] = bits[pos[c]]]
  /\ Proceed(c, "store")
  /\ UNCHANGED <<bits, on_file, sector, pos, panicked, owners, torn>>

StoreByte(c) ==
  /\ doing[c] = "store"
  /\ on_file' = [on_file EXCEPT ![pos[c]] = byte[c]]
  /\ torn' = IF byte[c] = bits[pos[c]] THEN torn \ {pos[c]} ELSE torn \cup {pos[c]}
  /\ pos' = [pos EXCEPT ![c] = @ + 1]
  /\ Proceed(c, "load")
  /\ UNCHANGED <<bits, sector, byte, panicked, owners>>

Written(c) ==
  /\ doing[c] = "load" /\ pos[c] = BIT_CNT
  /\ pos' = [pos EXCEPT ![c] = 0]
  /\ byte' = [byte EXCEPT ![c] = FALSE]
  /\ sector' = [sector EXCEPT ![c] = 0]
  /\ Proceed(c, "idle")
  /\ UNCHANGED <<bits, on_file, panicked, owners, torn>>

FreeMapStep(c) ==
  \/ free_map_allocate(c) \/ bitmap_scan(c) \/ ScanFails(c) \/ bitmap_mark(c)
  \/ (\E s \in Bit : free_map_release(c, s)) \/ bitmap_reset(c)
  \/ Load(c) \/ StoreByte(c) \/ Written(c)

FreeMapNext == ~panicked /\ \E c \in Caller : FreeMapStep(c)

FreeMapSpec == FreeMapInit /\ [][FreeMapNext]_free_map_vars

-----------------------------------------------------------------------------
(* Properties. *)

FreeMapTypeOK ==
  /\ bits \in [Bit -> BOOLEAN] /\ on_file \in [Bit -> BOOLEAN]
  /\ doing \in [Caller -> {"idle", "scan", "mark", "reset", "load", "store"}]
  /\ sector \in [Caller -> Bit] /\ pos \in [Caller -> 0..BIT_CNT]
  /\ byte \in [Caller -> BOOLEAN]
  /\ panicked \in BOOLEAN
  /\ owned \in [Caller -> SUBSET Bit] /\ robbed \in [Caller -> SUBSET Bit]
  /\ overtaken \in SUBSET Caller /\ raced \in SUBSET Bit /\ torn \in SUBSET Bit

\* A sector has one owner, unless a second caller had found it free before the
\* first one marked it; the map marks exactly the sectors that are owned, but for
\* an owner whose sector the other one has released; and only such an owner
\* fails the assertion in free_map_release().
OwnersMarked ==
  /\ \A c, d \in Caller : c # d => owned[c] \cap owned[d] \in SUBSET raced
  /\ \A s \in Bit : bits[s] <=> \E c \in Caller : s \in owned[c] \ robbed[c]
  /\ panicked => \E c \in Caller : robbed[c] # {}

\* Once nobody is at it, the file has the map as it is in memory, but for bits
\* that a slower writer stored as they had been: every change is written after it
\* was made, though each of the writers copies bits that others are changing.
FileIsMap ==
  (\A c \in Caller : doing[c] = "idle")
    => \A s \in Bit \ torn : on_file[s] = bits[s]

\* The map in memory is right, and so is its copy in the file.
MapKept == FreeMapTypeOK /\ OwnersMarked /\ FileIsMap

\* free-map.c:25: free_map_allocate() returns "false if not enough consecutive
\* sectors were available": it fails only when all sectors are taken.
FailsOnlyIfFull ==
  [][\A c \in Caller : ScanFails(c) => \A s \in Bit : bits[s]]_free_map_vars

\* bitmap.c:313: what bitmap_scan_and_flip() found clear it flips, so that no
\* sector is given to two callers.
GivenOnce == raced = {}
===============================================================================
