---------------------------- MODULE ImagesProofs ----------------------------
(***************************************************************************)
(* The program images on disk, for every geometry of the disk, every set   *)
(* of programs and every transfer: each file is where the file table says, *)
(* and what is loaded is what the file says.                               *)
(*                                                                         *)
(* The two recursive functions of the model, the walk over the sectors and *)
(* the digits that fit in a word, are given a closed form.  That a         *)
(* function defined by recursion is the closed form is shown by its least  *)
(* counterexample: a set of naturals that is not empty has a minimum.      *)
(***************************************************************************)
EXTENDS Images, SequenceTheorems, WellFoundedInduction, TLAPS

-----------------------------------------------------------------------------
(* Arithmetic. *)

Less == {xy \in Nat \X Nat : xy[1] < xy[2]}

(* Every set of naturals with a member has a least one.                    *)
LEMMA Minimum ==
    ASSUME NEW T \in SUBSET Nat, T # {}
    PROVE  \E x \in T : \A y \in T : x <= y
<1>1. IsWellFoundedOn(Less, Nat)
  <2>1. IsWellFoundedOn(OpToRel(<, Nat), Nat)
    BY NatLessThanWellFounded
  <2>2. Less = OpToRel(<, Nat)
    BY DEF Less, OpToRel
  <2> QED
    BY <2>1, <2>2
<1>2. PICK x \in T : \A y \in T : ~(<<y, x>> \in Less)
  BY <1>1, WFMin
<1>3. \A y \in T : x <= y
  <2> SUFFICES ASSUME NEW y \in T PROVE ~(y < x)
    OBVIOUS
  <2>1. y < x => <<y, x>> \in Less
    BY DEF Less
  <2> QED
    BY <1>2, <2>1
<1> QED
  BY <1>3

(* A quotient and a remainder of a number, *)
LEMMA DivMod ==
    ASSUME NEW n \in Nat, NEW d \in Nat \ {0}
    PROVE  /\ n \div d \in Nat /\ n % d \in 0 .. d - 1
           /\ n = d * (n \div d) + (n % d)
OBVIOUS

(* which are the only ones.                                                *)
LEMMA DivModUnique ==
    ASSUME NEW d \in Nat \ {0}, NEW q \in Nat, NEW r \in 0 .. d - 1,
           NEW n \in Nat, n = d * q + r
    PROVE  n \div d = q /\ n % d = r
OBVIOUS

(* Division of a successor: the remainder grows until it starts again.     *)
LEMMA SuccDiv ==
    ASSUME NEW n \in Nat, NEW d \in Nat \ {0}
    PROVE  IF (n % d) + 1 < d
           THEN (n + 1) % d = (n % d) + 1 /\ (n + 1) \div d = n \div d
           ELSE (n + 1) % d = 0 /\ (n + 1) \div d = (n \div d) + 1
<1> DEFINE q == n \div d
           r == n % d
<1>1. q \in Nat /\ r \in 0 .. d - 1 /\ n = d * q + r
  BY DivMod
<1> HIDE DEF q, r
<1>2. CASE r + 1 < d
  <2>1. r + 1 \in 0 .. d - 1 /\ n + 1 = d * q + (r + 1)
    BY <1>1, <1>2
  <2>2. (n + 1) \div d = q /\ (n + 1) % d = r + 1
    BY <1>1, <2>1, DivModUnique
  <2> QED
    BY <1>2, <2>2 DEF q, r
<1>3. CASE ~(r + 1 < d)
  <2> DEFINE m == n + 1
             q1 == q + 1
             zero == 0
  <2>1. zero \in 0 .. d - 1 /\ q1 \in Nat /\ m \in Nat /\ m = d * q1 + zero
    BY <1>1, <1>3
  <2> HIDE DEF m, q1, zero
  <2>2. m \div d = q1 /\ m % d = zero
    BY <2>1, DivModUnique
  <2> QED
    BY <1>3, <2>2 DEF q, r, m, q1, zero
<1> QED
  BY <1>2, <1>3

(* A number below a product has its quotient below the factor.             *)
LEMMA DivBound ==
    ASSUME NEW n \in Nat, NEW d \in Nat \ {0}, NEW c \in Nat, n < c * d
    PROVE  n \div d < c
<1>1. /\ n \div d \in Nat /\ n % d \in Nat
      /\ n = d * (n \div d) + (n % d)
  BY DivMod
<1>2. SUFFICES ASSUME c <= n \div d PROVE FALSE
  BY <1>1
<1>3. c * d <= (n \div d) * d
  BY <1>1, <1>2
<1> QED
  BY <1>1, <1>3

-----------------------------------------------------------------------------
(* The walk. *)

(* The dimensions of the disk. *)
LEMMA Geometry ==
    /\ DISK_TRACKS \in Nat \ {0}
    /\ DISK_CYLINDERS \in Nat \ {0}
    /\ DISK_SECTORS \in Nat \ {0}
    /\ MAX_WORDS_BUFFER \in Nat
    /\ MAX_WORDS_BUFFER <= DISK_CYLINDERS * DISK_SECTORS
BY ImagesAssumption, TrackAssumption

(* From the i-th sector the walk goes to the next one.                     *)
LEMMA AdvanceNth ==
    ASSUME NEW track \in Nat, NEW i \in Nat
    PROVE  Advance(Nth(track, i)) = Nth(track, i + 1)
<1> DEFINE a == i \div DISK_SECTORS
           b == (i + 1) \div DISK_SECTORS
<1>1. a \in Nat /\ a \div DISK_CYLINDERS \in Nat
  BY Geometry, DivMod
<1>2. IF (i % DISK_SECTORS) + 1 < DISK_SECTORS
      THEN (i + 1) % DISK_SECTORS = (i % DISK_SECTORS) + 1 /\ b = a
      ELSE (i + 1) % DISK_SECTORS = 0 /\ b = a + 1
  BY Geometry, SuccDiv
<1>3. IF (a % DISK_CYLINDERS) + 1 < DISK_CYLINDERS
      THEN /\ (a + 1) % DISK_CYLINDERS = (a % DISK_CYLINDERS) + 1
           /\ (a + 1) \div DISK_CYLINDERS = a \div DISK_CYLINDERS
      ELSE /\ (a + 1) % DISK_CYLINDERS = 0
           /\ (a + 1) \div DISK_CYLINDERS = (a \div DISK_CYLINDERS) + 1
  BY <1>1, Geometry, SuccDiv
<1>4. /\ Nth(track, i) = [track |-> track + (a \div DISK_CYLINDERS),
                          cylinder |-> a % DISK_CYLINDERS,
                          sector |-> i % DISK_SECTORS]
      /\ Nth(track, i + 1) = [track |-> track + (b \div DISK_CYLINDERS),
                              cylinder |-> b % DISK_CYLINDERS,
                              sector |-> (i + 1) % DISK_SECTORS]
  BY DEF Nth
<1> HIDE DEF a, b
<1>5. CASE (i % DISK_SECTORS) + 1 < DISK_SECTORS
  BY <1>2, <1>4, <1>5 DEF Advance
<1>6. CASE ~((i % DISK_SECTORS) + 1 < DISK_SECTORS)
  <2>1. CASE (a % DISK_CYLINDERS) + 1 < DISK_CYLINDERS
    <3> DEFINE next == [track |-> track + (a \div DISK_CYLINDERS),
                        cylinder |-> (a % DISK_CYLINDERS) + 1,
                        sector |-> 0]
    <3>1. Nth(track, i + 1) = next
      BY <1>2, <1>3, <1>4, <1>6, <2>1
    <3>2. Advance(Nth(track, i)) = next
      BY <1>4, <1>6, <2>1 DEF Advance
    <3> QED
      BY <3>1, <3>2
  <2>2. CASE ~((a % DISK_CYLINDERS) + 1 < DISK_CYLINDERS)
    BY <1>1, <1>2, <1>3, <1>4, <1>6, <2>2 DEF Advance
  <2> QED
    BY <2>1, <2>2
<1> QED
  BY <1>5, <1>6

(* The walk from a track passes its sectors in order (the loops of         *)
(* write_program_to_disk and read_program_from_disk, load.c).              *)
LEMMA WalkNth ==
    ASSUME NEW track \in Nat, NEW words \in Nat
    PROVE  Walk(track, words) = [i \in 0 .. words |-> Nth(track, i)]
<1> DEFINE first  == [track |-> track, cylinder |-> 0, sector |-> 0]
           closed == [i \in 0 .. words |-> Nth(track, i)]
           Rec(f) == [i \in 0 .. words |-> IF i = 0 THEN first ELSE Advance(f[i - 1])]
           at     == CHOOSE f : f = Rec(f)
<1>1. Nth(track, 0) = first
  <2>1. /\ 0 \div DISK_SECTORS = 0 /\ 0 % DISK_SECTORS = 0
        /\ 0 \div DISK_CYLINDERS = 0 /\ 0 % DISK_CYLINDERS = 0
    BY Geometry, DivModUnique
  <2> QED
    BY <2>1 DEF Nth
<1>2. \A i \in 1 .. words : Advance(Nth(track, i - 1)) = Nth(track, i)
  <2> SUFFICES ASSUME NEW i \in 1 .. words
               PROVE  Advance(Nth(track, i - 1)) = Nth(track, i)
    OBVIOUS
  <2>1. i - 1 \in Nat /\ (i - 1) + 1 = i
    OBVIOUS
  <2>2. Advance(Nth(track, i - 1)) = Nth(track, (i - 1) + 1)
    BY <2>1, AdvanceNth
  <2> QED
    BY <2>1, <2>2
<1> HIDE DEF first
<1>3. closed = Rec(closed)
  <2>1. \A i \in 0 .. words :
          Nth(track, i) = IF i = 0 THEN first ELSE Advance(closed[i - 1])
    BY <1>1, <1>2
  <2> QED
    BY <2>1
<1>4. at = Rec(at)
  BY <1>3
<1>5. Walk(track, words) = at
  BY DEF Walk, first
<1> HIDE DEF at
<1>6. \A i \in 0 .. words : at[i] = IF i = 0 THEN first ELSE Advance(at[i - 1])
  BY <1>4
<1>7. \A i \in 0 .. words : at[i] = Nth(track, i)
  <2> DEFINE wrong == {i \in 0 .. words : at[i] # Nth(track, i)}
  <2> SUFFICES ASSUME wrong # {} PROVE FALSE
    OBVIOUS
  <2>1. wrong \in SUBSET Nat
    OBVIOUS
  <2> HIDE DEF wrong
  <2>2. PICK m \in wrong : \A i \in wrong : m <= i
    BY <2>1, Minimum
  <2>3. m \in 0 .. words /\ at[m] # Nth(track, m)
    BY <2>2 DEF wrong
  <2>4. m # 0
    BY <1>1, <1>6, <2>3
  <2>5. m \in 1 .. words /\ m - 1 \in 0 .. words /\ ~(m <= m - 1)
    BY <2>3, <2>4
  <2>6. at[m - 1] = Nth(track, m - 1)
    BY <2>2, <2>5 DEF wrong
  <2> QED
    BY <1>2, <1>6, <2>3, <2>4, <2>5, <2>6
<1>8. at = closed
  BY <1>4, <1>7
<1> QED
  BY <1>5, <1>8

(* The sectors of the walk are different, *)
LEMMA NthInjective ==
    ASSUME NEW track \in Nat, NEW i \in Nat, NEW j \in Nat,
           Nth(track, i) = Nth(track, j)
    PROVE  i = j
<1> DEFINE a == i \div DISK_SECTORS
           b == j \div DISK_SECTORS
<1>1. a \in Nat /\ b \in Nat /\ a \div DISK_CYLINDERS \in Nat /\ b \div DISK_CYLINDERS \in Nat
  BY Geometry, DivMod
<1>2. /\ track + (a \div DISK_CYLINDERS) = track + (b \div DISK_CYLINDERS)
      /\ a % DISK_CYLINDERS = b % DISK_CYLINDERS
      /\ i % DISK_SECTORS = j % DISK_SECTORS
  BY DEF Nth
<1> HIDE DEF a, b
<1>3. a = b
  <2>1. /\ a = DISK_CYLINDERS * (a \div DISK_CYLINDERS) + (a % DISK_CYLINDERS)
        /\ b = DISK_CYLINDERS * (b \div DISK_CYLINDERS) + (b % DISK_CYLINDERS)
    BY <1>1, Geometry, DivMod
  <2>2. a \div DISK_CYLINDERS = b \div DISK_CYLINDERS
    BY <1>1, <1>2
  <2> QED
    BY <1>2, <2>1, <2>2
<1>4. /\ i = DISK_SECTORS * a + (i % DISK_SECTORS)
      /\ j = DISK_SECTORS * b + (j % DISK_SECTORS)
  BY Geometry, DivMod DEF a, b
<1> QED
  BY <1>2, <1>3, <1>4

(* no track is left before it is full, *)
LEMMA NthTrack ==
    ASSUME NEW track \in Nat, NEW i \in Nat, i < MAX_WORDS_BUFFER
    PROVE  Nth(track, i).track = track
<1> DEFINE a == i \div DISK_SECTORS
           none == 0
<1>1. a \in Nat /\ a < DISK_CYLINDERS
  <2>1. i < DISK_CYLINDERS * DISK_SECTORS
    BY Geometry
  <2> QED
    BY <2>1, Geometry, DivMod, DivBound
<1> HIDE DEF a
<1>2. none \in Nat /\ a \in 0 .. DISK_CYLINDERS - 1 /\ a = DISK_CYLINDERS * none + a
  BY <1>1, Geometry
<1> HIDE DEF none
<1>3. a \div DISK_CYLINDERS = none
  BY <1>2, Geometry, DivModUnique
<1>4. Nth(track, i).track = track + (a \div DISK_CYLINDERS)
  BY DEF Nth, a
<1> QED
  BY <1>3, <1>4 DEF none

(* the walk never goes back, *)
LEMMA NthForward ==
    ASSUME NEW track \in Nat, NEW i \in Nat
    PROVE  Nth(track, i).track \in Nat /\ Nth(track, i).track >= track
<1>1. (i \div DISK_SECTORS) \div DISK_CYLINDERS \in Nat
  BY Geometry, DivMod
<1> QED
  BY <1>1 DEF Nth

(* and stays on the disk as long as the track is one of it.                *)
LEMMA NthSector ==
    ASSUME NEW track \in Nat, NEW i \in Nat, i < MAX_WORDS_BUFFER,
           track < DISK_TRACKS
    PROVE  Nth(track, i) \in Sector
<1>1. Nth(track, i).track \in 0 .. DISK_TRACKS - 1
  BY NthTrack, Geometry
<1>2. /\ (i \div DISK_SECTORS) % DISK_CYLINDERS \in 0 .. DISK_CYLINDERS - 1
      /\ i % DISK_SECTORS \in 0 .. DISK_SECTORS - 1
  BY Geometry, DivMod
<1> QED
  BY <1>1, <1>2 DEF Nth, Sector

-----------------------------------------------------------------------------
(* The words. *)

(* A number with no more digits than there is room for is stored as it is. *)
LEMMA LeadingFits ==
    ASSUME NEW n \in Nat, NEW chars \in Nat, n < 10 ^ chars
    PROVE  Leading(n, chars) = n
<1> DEFINE limit  == 10 ^ chars
           Rec(f) == [m \in 0 .. n |-> IF m < limit THEN m ELSE f[m \div 10]]
           cut    == CHOOSE f : f = Rec(f)
           closed == [m \in 0 .. n |-> m]
<1>1. limit \in Int /\ n < limit
  OBVIOUS
<1>2. Leading(n, chars) = cut[n]
  BY DEF Leading
<1> HIDE DEF limit
<1>3. \A m \in 0 .. n : m < limit
  BY <1>1
<1>4. closed = Rec(closed)
  BY <1>3
<1>5. cut = Rec(cut)
  BY <1>4
<1> HIDE DEF cut
<1>6. cut[n] = n
  BY <1>3, <1>5
<1> QED
  BY <1>2, <1>6

(* "%08d" and atoi give back every word the file may hold in its columns,  *)
(* the sign included (write_program_to_disk, read_program_from_disk).      *)
LEMMA StoredFits ==
    ASSUME NEW word \in Int,
           word > -(10 ^ (WORD_DIGITS - 1)), word < 10 ^ WORD_DIGITS
    PROVE  Stored(word) = word
<1>1. WORD_DIGITS \in Nat /\ WORD_DIGITS - 1 \in Nat
  BY ImagesAssumption
<1> DEFINE short == 10 ^ (WORD_DIGITS - 1)
<1>2. short \in Int
  BY <1>1
<1>3. CASE word >= 0
  BY <1>1, <1>3, LeadingFits DEF Stored
<1>4. CASE word < 0
  <2>1. -word \in Nat /\ -word < short
    BY <1>2, <1>4
  <2>2. Leading(-word, WORD_DIGITS - 1) = -word
    BY <1>1, <2>1, LeadingFits
  <2> QED
    BY <1>4, <2>2 DEF Stored
<1> QED
  BY <1>3, <1>4

-----------------------------------------------------------------------------
(* The invariant. *)

(* The file table describes programs that a load has written, on tracks    *)
(* below the next free one: a later load touches none of them.             *)
FileTableOK ==
    /\ proxima_pista_libre \in Nat
    /\ OnDisk \subseteq Programs
    /\ \A prog \in OnDisk :
        /\ file_table[prog].track \in 0 .. proxima_pista_libre - 1
        /\ file_table[prog].size = Size(prog)
        /\ Size(prog) <= MAX_WORDS_BUFFER

(* The inductive invariant.                                                *)
ImagesInv ==
    /\ disk = [loc \in Sector |-> disk[loc]]
    /\ FileTableOK
    /\ FilesIntact
    /\ LoadedAsWritten

(* The words of a program are numbers. *)
LEMMA ImageWords ==
    ASSUME NEW prog \in Programs
    PROVE  /\ Size(prog) \in Nat
           /\ \A i \in 1 .. Size(prog) : Image[prog][i] \in Int
<1>1. Image[prog] \in Seq(Int)
  BY ImagesAssumption
<1>2. Len(Image[prog]) \in Nat
  BY <1>1, LenProperties
<1>3. \A i \in 1 .. Len(Image[prog]) : Image[prog][i] \in Int
  BY <1>1, ElementOfSeq
<1> QED
  BY <1>2, <1>3 DEF Size

(* The places of a program's words on its track.                           *)
Places(track, words, loc) == {i \in 1 .. words : Nth(track, i - 1) = loc}

(* What a load does to the disk, whether it succeeds or not.               *)
LEMMA LoadWrites ==
    ASSUME FileTableOK, NEW prog \in Programs, LoadToDisk(prog)
    PROVE  LET places(loc) == Places(proxima_pista_libre, Size(prog), loc)
           IN  /\ disk' = [loc \in Sector |->
                            IF places(loc) = {} THEN disk[loc]
                            ELSE Stored(Image[prog][CHOOSE i \in places(loc) : TRUE])]
               /\ scribbled' = {loc \in scribbled : places(loc) = {}}
<1> DEFINE words       == Size(prog)
           track       == proxima_pista_libre
           places(loc) == Places(track, words, loc)
           before(loc) == {i \in 1 .. words : Walk(track, words)[i - 1] = loc}
<1>1. words \in Nat /\ track \in Nat
  BY ImageWords DEF FileTableOK
<1>2. /\ disk' = [loc \in Sector |->
                    IF before(loc) = {} THEN disk[loc]
                    ELSE Stored(Image[prog][CHOOSE i \in before(loc) : TRUE])]
      /\ scribbled' = {loc \in scribbled : before(loc) = {}}
  BY DEF LoadToDisk
<1> HIDE DEF words, track
<1>3. Walk(track, words) = [i \in 0 .. words |-> Nth(track, i)]
  BY <1>1, WalkNth
<1>4. \A i \in 1 .. words : Walk(track, words)[i - 1] = Nth(track, i - 1)
  <2>1. \A i \in 1 .. words : i - 1 \in 0 .. words
    BY <1>1
  <2> QED
    BY <1>3, <2>1
<1>5. \A loc : before(loc) = places(loc)
  BY <1>4 DEF Places
<1> HIDE DEF before, places
<1>6. /\ disk' = [loc \in Sector |->
                    IF places(loc) = {} THEN disk[loc]
                    ELSE Stored(Image[prog][CHOOSE i \in places(loc) : TRUE])]
      /\ scribbled' = {loc \in scribbled : places(loc) = {}}
  BY <1>2, <1>5
<1> QED
  BY <1>6 DEF places, track, words

(* A program on a lower track is not touched by a load.                    *)
LEMMA OthersKept ==
    ASSUME FileTableOK, FilesIntact, NEW prog \in Programs, LoadToDisk(prog),
           NEW other \in OnDisk, NEW i \in 1 .. Size(other)
    PROVE  LET loc == Nth(file_table[other].track, i - 1)
           IN  /\ loc \in Sector
               /\ loc \in scribbled' \/ disk'[loc] = Stored(Image[other][i])
<1> DEFINE loc == Nth(file_table[other].track, i - 1)
           places == Places(proxima_pista_libre, Size(prog), loc)
<1>1. loc \in Sector /\ (loc \in scribbled \/ disk[loc] = Stored(Image[other][i]))
  BY DEF FilesIntact
<1>2. places = {}
  <2> SUFFICES ASSUME NEW k \in 1 .. Size(prog), Nth(proxima_pista_libre, k - 1) = loc
               PROVE  FALSE
    BY DEF Places
  <2>1. Size(prog) \in Nat /\ Size(other) \in Nat
    BY ImageWords DEF FileTableOK
  <2>2. i - 1 \in Nat /\ i - 1 < MAX_WORDS_BUFFER /\ k - 1 \in Nat
    BY <2>1, Geometry DEF FileTableOK
  <2>3. file_table[other].track \in Nat /\ file_table[other].track < proxima_pista_libre
    BY DEF FileTableOK
  <2>4. loc.track = file_table[other].track
    BY <2>2, <2>3, NthTrack
  <2>5. loc.track >= proxima_pista_libre
    BY <2>2, NthForward DEF FileTableOK
  <2> QED
    BY <2>3, <2>4, <2>5 DEF FileTableOK
<1>3. /\ disk'[loc] = disk[loc]
      /\ loc \in scribbled <=> loc \in scribbled'
  BY <1>1, <1>2, LoadWrites
<1> QED
  BY <1>1, <1>3

(* A program that a load enters in the file table is where it says.        *)
LEMMA NewWritten ==
    ASSUME FileTableOK, NEW prog \in Programs, LoadToDisk(prog),
           Completes(Walk(proxima_pista_libre, Size(prog)), Size(prog)),
           NEW i \in 1 .. Size(prog)
    PROVE  LET loc == Nth(proxima_pista_libre, i - 1)
           IN  loc \in Sector /\ disk'[loc] = Stored(Image[prog][i])
<1> DEFINE track  == proxima_pista_libre
           words  == Size(prog)
           loc    == Nth(track, i - 1)
           places == Places(track, words, loc)
<1>1. words \in Nat /\ words <= MAX_WORDS_BUFFER /\ track \in Nat
  BY ImageWords DEF FileTableOK, LoadToDisk, ReadsFile
<1>2. i - 1 \in Nat /\ i - 1 < MAX_WORDS_BUFFER /\ words > 0
  BY <1>1, Geometry
<1>3. track < DISK_TRACKS
  <2>1. Walk(track, words)[words].track < DISK_TRACKS
    BY <1>2 DEF Completes
  <2>2. Walk(track, words)[words] = Nth(track, words)
    BY <1>1, WalkNth
  <2>3. Nth(track, words).track \in Nat /\ Nth(track, words).track >= track
    BY <1>1, NthForward
  <2> QED
    BY <1>1, <2>1, <2>2, <2>3, Geometry
<1>4. loc \in Sector
  BY <1>1, <1>2, <1>3, NthSector
<1>5. places = {i}
  <2>1. i \in places
    BY DEF Places
  <2>2. ASSUME NEW k \in places PROVE k = i
    <3>1. k \in 1 .. words /\ Nth(track, k - 1) = Nth(track, i - 1)
      BY DEF Places
    <3>2. k - 1 \in Nat
      BY <1>1, <3>1
    <3>3. k - 1 = i - 1
      BY <1>1, <1>2, <3>1, <3>2, NthInjective
    <3> QED
      BY <1>1, <3>1, <3>3
  <2> QED
    BY <2>1, <2>2
<1>6. (CHOOSE k \in places : TRUE) = i /\ places # {}
  BY <1>5
<1>7. disk'[loc] = IF places = {} THEN disk[loc]
                   ELSE Stored(Image[prog][CHOOSE k \in places : TRUE])
  BY <1>4, LoadWrites
<1> HIDE DEF places
<1> QED
  BY <1>4, <1>6, <1>7

(* A load keeps the invariant, whether it succeeds or not,                 *)
LEMMA LoadToDiskInv ==
    ASSUME ImagesInv, NEW prog \in Programs, LoadToDisk(prog)
    PROVE  ImagesInv'
<1> USE DEF ImagesInv
<1> DEFINE Intact(p, track) ==
            \A i \in 1 .. Size(p) :
                LET loc == Nth(track, i - 1)
                IN  /\ loc \in Sector
                    /\ loc \in scribbled' \/ disk'[loc] = Stored(Image[p][i])
<1>1. disk' = [loc \in Sector |-> disk'[loc]]
  BY DEF LoadToDisk
<1>2. UNCHANGED loaded /\ prog \notin OnDisk /\ Size(prog) <= MAX_WORDS_BUFFER
  BY DEF LoadToDisk, ReadsFile
<1>3. LoadedAsWritten'
  BY <1>2 DEF LoadedAsWritten, Size
<1>4. \A p \in OnDisk : Intact(p, file_table[p].track)
  BY OthersKept
<1>5. CASE /\ Completes(Walk(proxima_pista_libre, Size(prog)), Size(prog))
           /\ file_table' =
                [p \in OnDisk \union {prog} |->
                    IF p = prog
                    THEN [track |-> proxima_pista_libre, size |-> Size(prog)]
                    ELSE file_table[p]]
           /\ proxima_pista_libre' = proxima_pista_libre + 1
  <2>1. Intact(prog, proxima_pista_libre)
    BY <1>5, NewWritten
  <2> HIDE DEF Intact
  <2>2. /\ OnDisk' = OnDisk \union {prog}
        /\ file_table'[prog] = [track |-> proxima_pista_libre, size |-> Size(prog)]
        /\ \A p \in OnDisk : file_table'[p] = file_table[p]
    BY <1>2, <1>5 DEF OnDisk
  <2>3. \A p \in OnDisk' : Intact(p, file_table'[p].track)
    BY <1>4, <2>1, <2>2
  <2>4. FileTableOK'
    BY <1>2, <1>5, <2>2 DEF FileTableOK, Size
  <2>5. FilesIntact'
    BY <2>3 DEF Intact, FilesIntact, Size
  <2> QED
    BY <1>1, <1>3, <2>4, <2>5
<1>6. CASE UNCHANGED <<file_table, proxima_pista_libre>>
  <2>1. FileTableOK'
    BY <1>6 DEF FileTableOK, OnDisk, Size
  <2>2. FilesIntact'
    BY <1>4, <1>6 DEF FilesIntact, OnDisk, Size
  <2> QED
    BY <1>1, <1>3, <2>1, <2>2
<1> QED
  BY <1>5, <1>6 DEF LoadToDisk

(* the load of a program in RAM gives what the file says,                  *)
LEMMA LoadToRamInv ==
    ASSUME ImagesInv, NEW prog \in Programs, LoadToRam(prog)
    PROVE  ImagesInv'
<1> USE DEF ImagesInv
<1> DEFINE words == Size(prog)
           track == file_table[prog].track
           walk  == Walk(track, words)
           at(i) == disk[walk[i - 1]]
<1>1. /\ words \in Nat /\ track \in Nat /\ prog \in OnDisk
      /\ file_table[prog].size = words
  BY ImageWords DEF LoadToRam, FileTableOK
<1>2. loaded' = [prog |-> prog,
                 words |-> [i \in 1 .. words |-> at(i)],
                 spoilt |-> {i \in 1 .. words : walk[i - 1] \in scribbled}]
  BY <1>1 DEF LoadToRam
<1>3. ASSUME NEW i \in 1 .. words PROVE walk[i - 1] = Nth(track, i - 1)
  <2>1. i - 1 \in 0 .. words
    BY <1>1
  <2> QED
    BY <1>1, <2>1, WalkNth
<1>4. UNCHANGED <<disk, file_table, proxima_pista_libre, scribbled>>
  BY DEF LoadToRam
<1>5. FileTableOK' /\ FilesIntact'
  BY <1>4 DEF FileTableOK, FilesIntact, OnDisk, Size
<1> HIDE DEF walk
<1>6. Len(loaded'.words) = words
  <2>1. loaded'.words \in [1 .. words -> {at(i) : i \in 1 .. words}]
    BY <1>2
  <2> QED
    BY <1>1, <2>1, SeqDef
<1>7. ASSUME NEW i \in 1 .. words, i \notin loaded'.spoilt,
             Image[prog][i] > -(10 ^ (WORD_DIGITS - 1)),
             Image[prog][i] < 10 ^ WORD_DIGITS
      PROVE  loaded'.words[i] = Image[prog][i]
  <2>1. walk[i - 1] \notin scribbled /\ loaded'.words[i] = disk[walk[i - 1]]
    BY <1>2, <1>7
  <2>2. disk[walk[i - 1]] = Stored(Image[prog][i])
    BY <1>1, <1>3, <2>1 DEF FilesIntact
  <2>3. Stored(Image[prog][i]) = Image[prog][i]
    BY <1>7, ImageWords, StoredFits
  <2> QED
    BY <2>1, <2>2, <2>3
<1>8. LoadedAsWritten'
  <2>1. loaded'.prog = prog
    BY <1>2
  <2> QED
    BY <1>6, <1>7, <2>1 DEF LoadedAsWritten, Size
<1> QED
  BY <1>4, <1>5, <1>8

(* and so do a transfer and a restart.                                     *)
LEMMA OthersInv ==
    ASSUME ImagesInv,
           Reiniciar \/ (\E loc \in Targets, word \in Scribbles : MemoryToDisk(loc, word))
    PROVE  ImagesInv'
<1> USE DEF ImagesInv
<1>1. CASE Reiniciar
  <2>1. OnDisk' = {}
    BY <1>1 DEF Reiniciar, OnDisk
  <2> QED
    BY <1>1, <2>1 DEF Reiniciar, FileTableOK, FilesIntact, LoadedAsWritten, Size
<1>2. ASSUME NEW loc \in Targets, NEW word \in Scribbles, MemoryToDisk(loc, word)
      PROVE  ImagesInv'
  <2>1. /\ disk' = [disk EXCEPT ![loc] = Stored(word)]
        /\ scribbled' = scribbled \union {loc}
        /\ UNCHANGED <<file_table, proxima_pista_libre, loaded>>
    BY <1>2 DEF MemoryToDisk
  <2>2. disk' = [l \in Sector |-> disk'[l]]
    BY <2>1
  <2>3. FilesIntact'
    BY <2>1 DEF FilesIntact, OnDisk, Size
  <2> QED
    BY <2>1, <2>2, <2>3 DEF FileTableOK, LoadedAsWritten, OnDisk, Size
<1> QED
  BY <1>1, <1>2

(* The file table, the disk and the last load agree.                       *)
THEOREM ImagesInvariant == Spec => []ImagesInv
<1>1. Init => ImagesInv
  BY DEF Init, ImagesInv, FileTableOK, FilesIntact, LoadedAsWritten, OnDisk
<1>2. ImagesInv /\ [Next]_ivars => ImagesInv'
  <2> SUFFICES ASSUME ImagesInv, [Next]_ivars PROVE ImagesInv'
    OBVIOUS
  <2>1. CASE UNCHANGED ivars
    BY <2>1 DEF ivars, ImagesInv, FileTableOK, FilesIntact, LoadedAsWritten,
                OnDisk, Size
  <2> QED
    BY <2>1, LoadToDiskInv, LoadToRamInv, OthersInv DEF Next
<1> QED
  BY <1>1, <1>2, PTL DEF Spec

(* No load, failed load or restart lays an image over another, or beyond   *)
(* the disk: for any geometry whose tracks hold the longest program, every *)
(* file is where the file table says, unless a transfer spoilt it          *)
(* (load.c:120, main.c:296).                                               *)
THEOREM FilesKept == Spec => []FilesIntact
<1>1. ImagesInv => FilesIntact
  BY DEF ImagesInv
<1> QED
  BY <1>1, ImagesInvariant, PTL

(* Every word of up to WORD_DIGITS characters survives the way from the    *)
(* file to RAM, for any width of the words (load.c:139, 216).              *)
THEOREM LoadsFaithful == Spec => []LoadedAsWritten
<1>1. ImagesInv => LoadedAsWritten
  BY DEF ImagesInv
<1> QED
  BY <1>1, ImagesInvariant, PTL

=============================================================================
