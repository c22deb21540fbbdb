------------------------------- MODULE Images -------------------------------
(***************************************************************************)
(* The disk of src/src/disk.c and the program images on it: the walks over *)
(* sectors, cylinders and tracks with which src/src/load.c writes an image *)
(* and reads it back, the conversion of the words, the file table          *)
(* (src/src/kernel.c), the next free track of cmd_ejecutar                 *)
(* (src/src/main.c), `reiniciar', and the transfers of the DMA             *)
(* (src/src/dma.c) that write sectors the programs choose, those of an     *)
(* image included.                                                         *)
(***************************************************************************)
EXTENDS Integers, Sequences, FiniteSets

CONSTANTS
    Programs,           \* names of program files
    Image,              \* the words in each
    MAX_WORDS_BUFFER,   \* words the loader reads from a file
    MAX_FILE_TABLE,
    DISK_TRACKS, DISK_CYLINDERS, DISK_SECTORS,
    WORD_DIGITS,        \* characters of a word on disk
    Scribbles,          \* words the programs transfer to disk
    Targets,            \* sectors they transfer them to
    MaxTrack            \* bound of the model: last value of the next track
                        \* with which a load is tried

ASSUME ImagesAssumption ==
    /\ Image \in [Programs -> Seq(Int)]
    /\ MAX_WORDS_BUFFER \in Nat /\ MAX_FILE_TABLE \in Nat
    /\ DISK_TRACKS \in Nat \ {0}
    /\ DISK_CYLINDERS \in Nat \ {0} /\ DISK_SECTORS \in Nat \ {0}
    /\ WORD_DIGITS \in Nat \ {0, 1}
    /\ Scribbles \subseteq Int
    /\ MaxTrack \in Nat

Sector == [track : 0 .. DISK_TRACKS - 1,
           cylinder : 0 .. DISK_CYLINDERS - 1,
           sector : 0 .. DISK_SECTORS - 1]

ASSUME TargetsAssumption == Targets \subseteq Sector

(* The longest program does not outgrow a track (load.c:11, disk.h:7-9).   *)
ASSUME TrackAssumption == MAX_WORDS_BUFFER <= DISK_CYLINDERS * DISK_SECTORS

VARIABLES
    disk,           \* word in each sector; one never written reads as 0
    file_table,     \* first track and size of each program on disk
    proxima_pista_libre,
    loaded,         \* history: what load_program_to_ram read last
    scribbled       \* history: sectors whose last word a transfer wrote

ivars == <<disk, file_table, proxima_pista_libre, loaded, scribbled>>

OnDisk == DOMAIN file_table
Size(prog) == Len(Image[prog])

Init ==
    /\ disk = [loc \in Sector |-> 0]
    /\ file_table = <<>>
    /\ proxima_pista_libre = 0
    /\ loaded = [prog |-> "none", words |-> <<>>, spoilt |-> {}]
    /\ scribbled = {}

-----------------------------------------------------------------------------
(* A word on disk. *)

(* The most significant digits of n that fit in so many characters. *)
Leading(n, chars) ==
    LET cut[m \in 0 .. n] == IF m < 10 ^ chars THEN m ELSE cut[m \div 10]
    IN  cut[n]

(* Slip: one character less is copied. *)
Stored_LosesLast(word) == IF word >= 0 THEN Leading(word, WORD_DIGITS - 1)
                                       ELSE -Leading(-word, WORD_DIGITS - 2)

(* "%08d" written in the first eight characters of a sector, and atoi of   *)
(* them: the sign takes one of the eight.                                  *)
Stored(word) == IF word >= 0 THEN Leading(word, WORD_DIGITS)
                             ELSE -Leading(-word, WORD_DIGITS - 1)

-----------------------------------------------------------------------------
(* The walk of write_program_to_disk and read_program_from_disk. *)

(* The next sector, then the next cylinder, then the next track. *)
Advance(loc) ==
    IF loc.sector + 1 < DISK_SECTORS THEN [loc EXCEPT !.sector = @ + 1]
    ELSE IF loc.cylinder + 1 < DISK_CYLINDERS
         THEN [track |-> loc.track, cylinder |-> loc.cylinder + 1, sector |-> 0]
         ELSE [track |-> loc.track + 1, cylinder |-> 0, sector |-> 0]

(* Where the walk from the beginning of a track is before each of so many  *)
(* words, and after the last.                                              *)
Walk(track, words) ==
    LET at[i \in 0 .. words] ==
            IF i = 0 THEN [track |-> track, cylinder |-> 0, sector |-> 0]
                     ELSE Advance(at[i - 1])
    IN  at

(* Both walks fail on a sector that does not exist, and as soon as one     *)
(* passes the last track, be it after the last word.                       *)
Completes(walk, words) == words > 0 => walk[words].track < DISK_TRACKS

-----------------------------------------------------------------------------
(* Actions. *)

(* Slip: one word more than the buffer holds is taken. *)
ReadsFile_OneMore(prog) == Size(prog) <= MAX_WORDS_BUFFER + 1

(* read_program_file takes the file. *)
ReadsFile(prog) == Size(prog) <= MAX_WORDS_BUFFER

(* load_program_to_disk, for a name that is not in the file table: the     *)
(* words go to disk before anything is known of the process and the file   *)
(* tables, and stay there on a failure.  Whether there is a slot for the   *)
(* process is MiniKernel's affair.                                         *)
LoadToDisk(prog) ==
    LET words == Size(prog)
        walk == Walk(proxima_pista_libre, words)
        before(loc) == {i \in 1 .. words : walk[i - 1] = loc}
    IN  /\ prog \notin OnDisk
        /\ ReadsFile(prog)
        /\ proxima_pista_libre <= MaxTrack
        /\ disk' = [loc \in Sector |->
                       IF before(loc) = {} THEN disk[loc]
                       ELSE Stored(Image[prog][CHOOSE i \in before(loc) : TRUE])]
        /\ scribbled' = {loc \in scribbled : before(loc) = {}}
        /\ \E slot \in BOOLEAN :
              IF /\ Completes(walk, words)
                 /\ slot /\ Cardinality(OnDisk) < MAX_FILE_TABLE
              THEN /\ file_table' =
                          [p \in OnDisk \union {prog} |->
                              IF p = prog
                              THEN [track |-> proxima_pista_libre, size |-> words]
                              ELSE file_table[p]]
                   /\ proxima_pista_libre' = proxima_pista_libre + 1
              ELSE UNCHANGED <<file_table, proxima_pista_libre>>
        /\ UNCHANGED loaded

(* load_program_to_ram reads the image of a program on disk. *)
LoadToRam(prog) ==
    LET entry == file_table[prog]
        walk == Walk(entry.track, entry.size)
    IN  /\ prog \in OnDisk
        /\ Completes(walk, entry.size)
        /\ loaded' = [prog |-> prog,
                      words |-> [i \in 1 .. entry.size |-> disk[walk[i - 1]]],
                      spoilt |-> {i \in 1 .. entry.size :
                                     walk[i - 1] \in scribbled}]
        /\ UNCHANGED <<disk, file_table, proxima_pista_libre, scribbled>>

(* dma_perform_io from memory to disk, in whatever sector the program set. *)
MemoryToDisk(loc, word) ==
    /\ disk' = [disk EXCEPT ![loc] = Stored(word)]
    /\ scribbled' = scribbled \union {loc}
    /\ UNCHANGED <<file_table, proxima_pista_libre, loaded>>

(* disk_init and kernel_init_structures; the next free track is a static   *)
(* of cmd_ejecutar and goes on.                                            *)
Reiniciar ==
    /\ disk' = [loc \in Sector |-> 0]
    /\ file_table' = <<>>
    /\ scribbled' = {}
    /\ UNCHANGED <<loaded, proxima_pista_libre>>

Next ==
    \/ \E prog \in Programs : LoadToDisk(prog) \/ LoadToRam(prog)
    \/ \E loc \in Targets, word \in Scribbles : MemoryToDisk(loc, word)
    \/ Reiniciar

Spec == Init /\ [][Next]_ivars

-----------------------------------------------------------------------------
(* The i-th sector counted from the beginning of a track, without a walk. *)
Nth(track, i) ==
    [track |-> track + ((i \div DISK_SECTORS) \div DISK_CYLINDERS),
     cylinder |-> (i \div DISK_SECTORS) % DISK_CYLINDERS,
     sector |-> i % DISK_SECTORS]

(* Every program of the file table is on disk, word by word, where the     *)
(* table says, in sectors that exist.  No image is laid over another by a  *)
(* load, a failed load or a restart (load.c:120, main.c:296): only a       *)
(* transfer spoils one.                                                    *)
FilesIntact ==
    \A prog \in OnDisk : \A i \in 1 .. Size(prog) :
        LET loc == Nth(file_table[prog].track, i - 1)
        IN  /\ loc \in Sector
            /\ loc \in scribbled \/ disk[loc] = Stored(Image[prog][i])

(* What is loaded in RAM is what the file says, for every word of up to    *)
(* WORD_DIGITS characters that no transfer has spoilt (load.c:139, 216).   *)
LoadedAsWritten ==
    loaded.prog # "none" =>
        /\ Len(loaded.words) = Size(loaded.prog)
        /\ \A i \in 1 .. Size(loaded.prog) :
              LET word == Image[loaded.prog][i]
              IN  /\ word > -(10 ^ (WORD_DIGITS - 1)) /\ word < 10 ^ WORD_DIGITS
                  /\ i \notin loaded.spoilt
                  => loaded.words[i] = word

=============================================================================
