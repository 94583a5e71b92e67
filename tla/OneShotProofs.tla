----------------------------- MODULE OneShotProofs -----------------------------
(***************************************************************************)
(* Theorems about OneShot, for any files, addresses, width of an address    *)
(* and size of a chunk.  The invariant says that the device holds a prefix  *)
(* of the file at every call, however the addresses wrap.                   *)
(***************************************************************************)
EXTENDS OneShot, TLAPS

-------------------------------------------------------------------------------
(* Arithmetic.                                                              *)

LEMMA Division ==
  ASSUME NEW a \in Int, NEW b \in Nat \ {0}
  PROVE  /\ a \div b \in Int /\ a % b \in 0..(b - 1)
         /\ a = (a \div b) * b + (a % b)
BY SMT

LEMMA DivisionNat ==
  ASSUME NEW a \in Nat, NEW b \in Nat \ {0}
  PROVE  a \div b \in Nat
BY SMT

LEMMA SmallModulus ==
  ASSUME NEW a \in Nat, NEW b \in Nat, a < b
  PROVE  a % b = a /\ a \div b = 0
BY SMT

LEMMA ProductMonotone ==
  ASSUME NEW a \in Nat, NEW b \in Nat, NEW c \in Nat, a < b
  PROVE  a * c + c <= b * c
BY SMT

LEMMA ProductNat ==
  ASSUME NEW a \in Nat, NEW b \in Nat
  PROVE  a * b \in Nat
BY SMT

LEMMA Multiples ==
  ASSUME NEW q \in Int, NEW s \in Nat \ {0}, NEW x \in 0..(s - 1), NEW y \in 0..(s - 1),
         x = y + q * s
  PROVE  x = y
<1>1. CASE q = 0
  BY <1>1, SMT
<1>2. CASE q > 0
  <2>1. q * s >= s
    BY <1>2, SMT
  <2> QED BY <2>1, SMT
<1>3. CASE q < 0
  <2>1. q * s <= -s
    BY <1>3, SMT
  <2> QED BY <2>1, SMT
<1> QED BY <1>1, <1>2, <1>3, SMT

LEMMA MultipleModulus ==
  ASSUME NEW q \in Nat, NEW s \in Nat \ {0}
  PROVE  (q * s) % s = 0
<1> DEFINE p == q * s
<1>1. p \in Nat
  BY ProductNat
<1> HIDE DEF p
<1>2. /\ p \div s \in Int /\ p % s \in 0..(s - 1)
      /\ p = (p \div s) * s + (p % s)
  BY <1>1, Division
<1>3. p % s = 0 + (q - (p \div s)) * s
  BY <1>2, SMT DEF p
<1>4. p % s = 0
  BY <1>2, <1>3, Multiples
<1> QED BY <1>4 DEF p

LEMMA Sizes ==
  /\ Chunk \in Nat \ {0} /\ Chunk > 1 /\ Most \in Nat
  /\ Space \in Nat \ {0} /\ Radix \in Nat \ {0}
  /\ Addresses \subseteq Int /\ Values \subseteq Int /\ Counts \subseteq Int
BY OneShotAssumption DEF OneShotAssumption

(* Where a register of a request lies, counted from the first address.      *)
LEMMA Place ==
  ASSUME NEW f \in Int, NEW m \in Nat, NEW n \in Nat, NEW k \in 0..(Space - 1),
         m + n <= Space, Wire(f + m) + n <= Space
  PROVE  /\ (k - f) % Space \in Nat
         /\ Wire(f + m) <= k /\ k < Wire(f + m) + n
              => (k - f) % Space = m + (k - Wire(f + m))
         /\ m <= (k - f) % Space /\ (k - f) % Space < m + n
              => k = Wire(f + m) + (((k - f) % Space) - m)
<1> DEFINE d == (k - f) % Space
           w == (f + m) % Space
           q == (k - f) \div Space
           r == (f + m) \div Space
<1>1. Space \in Nat \ {0}
  BY Sizes
<1>2. q \in Int /\ d \in 0..(Space - 1) /\ k - f = q * Space + d
  <2> DEFINE a == k - f
  <2>1. a \in Int
    BY <1>1
  <2> HIDE DEF a
  <2>2. /\ a \div Space \in Int /\ a % Space \in 0..(Space - 1)
        /\ a = (a \div Space) * Space + (a % Space)
    BY <1>1, <2>1, Division
  <2> QED BY <2>2 DEF a
<1>3. r \in Int /\ w \in 0..(Space - 1) /\ f + m = r * Space + w
  <2> DEFINE a == f + m
  <2>1. a \in Int
    BY <1>1
  <2> HIDE DEF a
  <2>2. /\ a \div Space \in Int /\ a % Space \in 0..(Space - 1)
        /\ a = (a \div Space) * Space + (a % Space)
    BY <1>1, <2>1, Division
  <2> QED BY <2>2 DEF a
<1>4. Wire(f + m) = w
  BY DEF Wire
<1> HIDE DEF d, w, q, r
<1>5. /\ m + (k - w) = d + (q + r) * Space
      /\ w + (d - m) = k + (-(q + r)) * Space
  <2>1. (q + r) * Space = q * Space + r * Space
        /\ (-(q + r)) * Space = -(q * Space + r * Space)
    BY <1>1, <1>2, <1>3, SMT
  <2>2. q * Space \in Int /\ r * Space \in Int
    BY <1>1, <1>2, <1>3, SMT
  <2> QED BY <1>1, <1>2, <1>3, <2>1, <2>2, SMT
<1>6. ASSUME w <= k, k < w + n PROVE d = m + (k - w)
  <2>1. m + (k - w) \in 0..(Space - 1)
    BY <1>1, <1>3, <1>6, SMT
  <2>2. q + r \in Int
    BY <1>2, <1>3
  <2> QED BY <1>1, <1>2, <1>5, <2>1, <2>2, Multiples
<1>7. ASSUME m <= d, d < m + n PROVE k = w + (d - m)
  <2>1. w + (d - m) \in 0..(Space - 1)
    BY <1>1, <1>2, <1>3, <1>4, <1>7, SMT
  <2>2. -(q + r) \in Int
    BY <1>2, <1>3
  <2> QED BY <1>1, <1>5, <2>1, <2>2, Multiples
<1> QED BY <1>2, <1>4, <1>6, <1>7 DEF d

-------------------------------------------------------------------------------
(* The invariant.                                                           *)

Pending == {"chunk", "remaining", "write", "read"}

Sound(c) == c.size \in 0..Space /\ c.regs \in [0..(c.size - 1) -> Words]

(* What is known between two calls of a command: the registers before the   *)
(* next one are written, and no request crossed the last address.           *)
Underway ==
  at \in Pending =>
    /\ Sound(content) /\ ~fault
    /\ address = first + regs /\ regs = chunk * Chunk
    /\ holding = Written(regs)
    /\ \A c \in 0..(chunk - 1) : Wire(first + c * Chunk) + Chunk <= Space

(* Which call belongs to which command. *)
Calling ==
  /\ at = "chunk" => chunk < chunks /\ count = 0
  /\ at = "remaining" => chunk = chunks /\ count = 0
  /\ at = "write" => content.size = 1 /\ chunk = 0 /\ count = 0
  /\ at = "read" => content.size = 0 /\ chunk = 0

Types ==
  /\ at \in Over \cup Pending
  /\ first \in Int /\ address \in Int /\ count \in Int
  /\ content \in Files \cup {Nothing} \cup {One(v) : v \in Values}
  /\ content.size \in Nat
  /\ regs \in 0..content.size /\ chunk \in 0..chunks
  /\ strict \in BOOLEAN /\ fault \in BOOLEAN
  /\ holding \in [0..(Space - 1) -> Words] /\ before \in [0..(Space - 1) -> Words]

IInv == /\ Types /\ Underway /\ Calling
        /\ PrefixWritten /\ CompletedWhole /\ FailsOnlyDoomed

(* Chunks and what remains make up a content.                               *)
LEMMA Parts ==
  ASSUME NEW n \in Nat
  PROVE  /\ n \div Chunk \in Nat /\ n % Chunk \in 0..(Chunk - 1)
         /\ n = (n \div Chunk) * Chunk + (n % Chunk)
         /\ n < Chunk => n \div Chunk = 0 /\ n % Chunk = n
         /\ n >= Chunk => n \div Chunk # 0
<1>1. Chunk \in Nat \ {0} /\ Chunk > 1
  BY Sizes
<1>2. n \in Int
  OBVIOUS
<1>3. /\ n \div Chunk \in Nat /\ n % Chunk \in 0..(Chunk - 1)
      /\ n = (n \div Chunk) * Chunk + (n % Chunk)
  BY <1>1, <1>2, Division, DivisionNat
<1>4. n < Chunk => n % Chunk = n /\ n \div Chunk = 0
  BY <1>1, SmallModulus
<1>5. n >= Chunk => n \div Chunk # 0
  <2> SUFFICES ASSUME n >= Chunk, n \div Chunk = 0 PROVE FALSE
    OBVIOUS
  <2>1. n = 0 * Chunk + (n % Chunk)
    BY <1>3
  <2> QED BY <1>1, <1>3, <2>1
<1> QED BY <1>3, <1>4, <1>5

LEMMA Geometry ==
  ASSUME content.size \in Nat
  PROVE  /\ chunks \in Nat /\ remaining \in 0..(Chunk - 1)
         /\ content.size = chunks * Chunk + remaining
         /\ content.size < Chunk => chunks = 0 /\ remaining = content.size
<1> DEFINE n == content.size
<1>1. n \in Nat
  OBVIOUS
<1> HIDE DEF n
<1>2. /\ n \div Chunk \in Nat /\ n % Chunk \in 0..(Chunk - 1)
      /\ n = (n \div Chunk) * Chunk + (n % Chunk)
      /\ n < Chunk => n \div Chunk = 0 /\ n % Chunk = n
  BY <1>1, Parts
<1> QED BY <1>2 DEF n, chunks, remaining

(* The chunks up to one of them.                                            *)
LEMMA ChunkFits ==
  ASSUME content.size \in Nat, NEW c \in Nat, c < chunks
  PROVE  /\ c * Chunk \in Nat /\ (c + 1) * Chunk = c * Chunk + Chunk
         /\ c * Chunk + Chunk <= content.size
<1>1. /\ chunks \in Nat /\ remaining \in 0..(Chunk - 1) /\ Chunk \in Nat
      /\ content.size = chunks * Chunk + remaining
  BY Geometry, Sizes
<1>2. c * Chunk + Chunk <= chunks * Chunk
  BY <1>1, ProductMonotone
<1>3. c * Chunk \in Nat /\ chunks * Chunk \in Nat
  BY <1>1, ProductNat
<1>4. (c + 1) * Chunk = c * Chunk + Chunk
  BY <1>1, SMT
<1> QED BY <1>1, <1>2, <1>3, <1>4

LEMMA NothingWritten ==
  ASSUME first \in Int, before \in [0..(Space - 1) -> Words]
  PROVE  Written(0) = before
<1>1. Space \in Nat \ {0}
  BY Sizes
<1>2. \A k \in 0..(Space - 1) : ~((k - first) % Space < 0)
  <2> TAKE k \in 0..(Space - 1)
  <2> DEFINE a == k - first
  <2>1. a \in Int
    BY <1>1
  <2> HIDE DEF a
  <2>2. a % Space \in 0..(Space - 1)
    BY <1>1, <2>1, Division
  <2> QED BY <1>1, <2>2 DEF a
<1> QED BY <1>2 DEF Written

(* A request lengthens the prefix that is written.                          *)
LEMMA StoredPrefix ==
  ASSUME Types, Sound(content), NEW n \in Nat, regs + n <= content.size,
         address = first + regs, holding = Written(regs),
         ~Refused(address, n), Stored(n)
  PROVE  holding' = Written(regs + n) /\ holding' \in [0..(Space - 1) -> Words]
<1>1. /\ Space \in Nat \ {0} /\ first \in Int /\ regs \in Nat
      /\ content.size \in 0..Space /\ content.regs \in [0..(content.size - 1) -> Words]
      /\ DOMAIN holding = 0..(Space - 1) /\ holding \in [0..(Space - 1) -> Words]
  BY Sizes DEF Types, Sound
<1>2. /\ Wire(first + regs) + n <= Space /\ Wire(first + regs) \in Int
      /\ Wire(first + regs) >= 0
  <2> DEFINE a == first + regs
  <2>1. a \in Int
    BY <1>1
  <2> HIDE DEF a
  <2>2. a % Space \in 0..(Space - 1)
    BY <1>1, <2>1, Division
  <2>3. Wire(a) \in Int /\ Wire(a) >= 0
    BY <1>1, <2>2 DEF Wire
  <2> QED BY <2>3, <1>1 DEF a, Refused
<1> DEFINE w == Wire(first + regs)
           d(k) == (k - first) % Space
<1>3. ASSUME NEW k \in 0..(Space - 1)
      PROVE  /\ d(k) \in Nat
             /\ w <= k /\ k < w + n => d(k) = regs + (k - w)
             /\ regs <= d(k) /\ d(k) < regs + n => k = w + (d(k) - regs)
  <2>1. regs + n <= Space
    BY <1>1
  <2>2. Wire(first + regs) + n <= Space
    BY <1>2
  <2> QED BY <1>1, <2>1, <2>2, Place
<1>4. holding' = [k \in 0..(Space - 1) |->
                    IF w <= k /\ k < w + n
                    THEN content.regs[regs + (k - w)] ELSE holding[k]]
  BY <1>1 DEF Stored
<1>5. \A k \in 0..(Space - 1) :
        holding[k] = IF d(k) < regs THEN content.regs[d(k)] ELSE before[k]
  BY <1>1 DEF Written
<1> HIDE DEF w, d
<1>6. ASSUME NEW k \in 0..(Space - 1)
      PROVE  /\ holding'[k] = IF d(k) < regs + n THEN content.regs[d(k)] ELSE before[k]
             /\ holding'[k] \in Words
  <2>0. w \in Int /\ k \in Int /\ regs \in Nat /\ n \in Nat /\ d(k) \in Nat
    BY <1>1, <1>2, <1>3 DEF w
  <2>1. CASE w <= k /\ k < w + n
    <3>1. d(k) = regs + (k - w) /\ d(k) < regs + n
      BY <1>3, <2>0, <2>1
    <3>2. holding'[k] = content.regs[d(k)]
      BY <1>4, <2>1, <3>1
    <3>3. d(k) \in 0..(content.size - 1)
      BY <1>1, <2>0, <3>1
    <3> QED BY <1>1, <3>1, <3>2, <3>3
  <2>2. CASE ~(w <= k /\ k < w + n)
    <3>1. holding'[k] = holding[k]
      BY <1>4, <2>2
    <3>2. d(k) < regs + n => d(k) < regs
      BY <1>3, <2>0, <2>2
    <3>3. d(k) < regs => d(k) < regs + n
      BY <2>0
    <3> QED BY <1>1, <1>5, <3>1, <3>2, <3>3
  <2> QED BY <2>1, <2>2
<1>7. holding' = Written(regs + n)
  BY <1>4, <1>6 DEF Written, d
<1>8. holding' \in [0..(Space - 1) -> Words]
  BY <1>4, <1>6
<1> QED BY <1>7, <1>8

-------------------------------------------------------------------------------
(* Commands.                                                                *)

LEMMA CommandStep ==
  ASSUME IInv, NEW a \in Int, NEW c, NEW n \in Int, NEW next \in Pending \cup {"usage"},
         Command(a, c, n, next),
         c \in Files \cup {Nothing} \cup {One(v) : v \in Values}, c.size \in Nat,
         next # "usage" => Sound(c),
         next = "chunk" => c.size >= Chunk /\ n = 0,
         next = "remaining" => c.size < Chunk /\ n = 0,
         next = "write" => c.size = 1 /\ n = 0,
         next = "read" => c.size = 0
  PROVE  IInv'
<1>1. /\ first' = a /\ content' = c /\ count' = n /\ address' = a
      /\ regs' = 0 /\ chunk' = 0 /\ strict' = strict
      /\ holding' = holding /\ before' = holding
      /\ \/ at' = next /\ fault' = FALSE
         \/ at' = "failed" /\ fault' = TRUE
  BY DEF Command
<1>2. /\ chunks' \in Nat /\ (c.size < Chunk => chunks' = 0)
      /\ (c.size >= Chunk => chunks' # 0)
  BY <1>1, Parts DEF chunks
<1>3. holding \in [0..(Space - 1) -> Words] /\ strict \in BOOLEAN /\ Chunk \in Nat /\ Chunk > 1
  BY Sizes DEF IInv, Types
<1>4. holding' = Written(0)'
  <2>1. \A k \in 0..(Space - 1) : ~((k - a) % Space < 0)
    <3>1. Space \in Nat \ {0}
      BY Sizes
    <3> TAKE k \in 0..(Space - 1)
    <3> DEFINE b == k - a
    <3>2. b \in Int
      BY <3>1
    <3> HIDE DEF b
    <3>3. b % Space \in 0..(Space - 1)
      BY <3>1, <3>2, Division
    <3> QED BY <3>1, <3>3 DEF b
  <2> QED BY <1>1, <1>3, <2>1 DEF Written
<1>5. Types'
  <2>1. at' \in Over \cup Pending
    BY <1>1 DEF Over, Pending
  <2>2. content' \in Files \cup {Nothing} \cup {One(v) : v \in Values}
    BY <1>1
  <2>3. content'.size \in Nat /\ regs' \in 0..content'.size /\ chunk' \in 0..chunks'
    BY <1>1, <1>2
  <2>4. first' \in Int /\ address' \in Int /\ count' \in Int
    BY <1>1
  <2>5. /\ strict' \in BOOLEAN /\ fault' \in BOOLEAN
        /\ holding' \in [0..(Space - 1) -> Words]
        /\ before' \in [0..(Space - 1) -> Words]
    BY <1>1, <1>3
  <2> QED BY <2>1, <2>2, <2>3, <2>4, <2>5 DEF Types
<1>6. Underway'
  <2> SUFFICES ASSUME at' \in Pending PROVE Underway'
    BY DEF Underway
  <2>1. Sound(content)' /\ ~fault'
    BY <1>1 DEF Pending, Sound
  <2>2. address' = first' + regs' /\ regs' = chunk' * Chunk
    BY <1>1, <1>3
  <2>3. holding' = Written(regs)'
    BY <1>1, <1>4 DEF Written
  <2>4. 0..(chunk' - 1) = {}
    BY <1>1
  <2> QED BY <2>1, <2>2, <2>3, <2>4 DEF Underway
<1>7. Calling'
  BY <1>1, <1>2 DEF Calling, Pending
<1>8. PrefixWritten'
  <2>1. 0 \in 0..content'.size /\ 0 % Chunk = 0
    BY <1>1, <1>3
  <2> QED BY <1>4, <2>1 DEF PrefixWritten, Written
<1>9. CompletedWhole' /\ FailsOnlyDoomed'
  BY <1>1 DEF CompletedWhole, FailsOnlyDoomed, Pending
<1> QED BY <1>5, <1>6, <1>7, <1>8, <1>9 DEF IInv

LEMMA CommandsKeep ==
  ASSUME IInv, Commands
  PROVE  IInv'
<1>0. Space \in Nat \ {0} /\ Radix \in Nat \ {0} /\ Chunk \in Nat /\ Chunk > 1
  BY Sizes
<1>1. PICK a \in Int :
        \/ \E v \in Values : single_write(a, v)
        \/ \E n \in Counts, raw \in BOOLEAN : single_read(a, n, raw)
        \/ \E f \in Files : file_transfer(a, f)
  BY Sizes DEF Commands
<1>2. ASSUME NEW v \in Values, single_write(a, v) PROVE IInv'
  <2> DEFINE next == IF v < 0 \/ v > Radix - 1 THEN "usage" ELSE "write"
  <2>1. One(v).size = 1 /\ One(v).regs = [k \in 0..0 |-> v]
    BY DEF One
  <2>2. next # "usage" => Sound(One(v))
    <3>1. v \in Int
      BY Sizes
    <3>2. next # "usage" => v \in Words
      BY <1>0, <3>1 DEF Words
    <3> QED BY <1>0, <2>1, <3>2 DEF Sound
  <2>3. Command(a, One(v), 0, next) /\ next \in {"usage", "write"}
    BY <1>2 DEF single_write
  <2> HIDE DEF next
  <2> QED BY <2>1, <2>2, <2>3, CommandStep DEF Pending
<1>3. ASSUME NEW n \in Counts, NEW raw \in BOOLEAN, single_read(a, n, raw) PROVE IInv'
  <2> DEFINE next == IF ~raw /\ n \notin {1, 2, 4} THEN "usage" ELSE "read"
  <2>1. Nothing.size = 0 /\ Nothing.regs = [k \in 0..(-1) |-> 0]
    BY DEF Nothing
  <2>2. Sound(Nothing)
    BY <1>0, <2>1 DEF Sound
  <2>3. Command(a, Nothing, n, next) /\ next \in {"usage", "read"} /\ n \in Int
    BY <1>3, Sizes DEF single_read
  <2> HIDE DEF next
  <2> QED BY <2>1, <2>2, <2>3, CommandStep DEF Pending
<1>4. ASSUME NEW f \in Files, file_transfer(a, f) PROVE IInv'
  <2> DEFINE next == IF f.size < Chunk THEN "remaining" ELSE "chunk"
  <2>1. Sound(f) /\ f.size \in Nat
    BY <1>0, OneShotAssumption DEF OneShotAssumption, Sound
  <2>2. /\ Command(a, f, 0, next) /\ next \in {"remaining", "chunk"}
        /\ next = "remaining" => f.size < Chunk
        /\ next = "chunk" => f.size >= Chunk
    BY <1>0, <1>4, <2>1 DEF file_transfer
  <2>3. f \in Files \cup {Nothing} \cup {One(v) : v \in Values}
    BY <1>4
  <2> HIDE DEF next
  <2>4. next \in Pending \cup {"usage"} /\ next # "write" /\ next # "read"
    BY <2>2 DEF Pending
  <2> QED BY <2>1, <2>2, <2>3, <2>4, CommandStep
<1> QED BY <1>1, <1>2, <1>3, <1>4

-------------------------------------------------------------------------------
(* Calls.                                                                   *)

Fixed == <<first, content, count, strict, before>>

(* A call that throws: what it wrote is a prefix, and if nothing was lost   *)
(* the command was doomed.                                                  *)
LEMMA FailingKeeps ==
  ASSUME IInv, at' = "failed", UNCHANGED <<Fixed, cursor>>,
         holding' \in [0..(Space - 1) -> Words], fault' \in BOOLEAN,
         NEW m \in 0..content.size, holding' = Written(m),
         m % Chunk = 0 \/ m = content.size,
         fault' \/ Doomed
  PROVE  IInv'
<1>1. Types'
  BY DEF IInv, Types, Fixed, cursor, Over, chunks
<1>2. Underway' /\ Calling' /\ CompletedWhole'
  BY DEF Underway, Calling, CompletedWhole, Pending
<1>3. PrefixWritten'
  BY DEF PrefixWritten, Written, Fixed
<1>4. Doomed => Doomed'
  BY DEF Doomed, Fixed, chunks, remaining
<1>5. FailsOnlyDoomed'
  BY <1>4 DEF FailsOnlyDoomed
<1> QED BY <1>1, <1>2, <1>3, <1>5 DEF IInv

(* The last call of a command.                                              *)
LEMMA CompletingKeeps ==
  ASSUME IInv, at' = "completed", UNCHANGED <<Fixed, cursor, fault>>,
         holding' \in [0..(Space - 1) -> Words],
         holding' = Written(content.size), ~Doomed
  PROVE  IInv'
<1>1. Types'
  BY DEF IInv, Types, Fixed, cursor, Over, chunks
<1>2. Underway' /\ Calling'
  BY DEF Underway, Calling, Pending
<1>3. CompletedWhole'
  BY DEF CompletedWhole, Written, Fixed
<1>4. PrefixWritten'
  <2>1. content.size \in 0..content.size
    BY DEF IInv, Types
  <2> QED BY <2>1 DEF PrefixWritten, Written, Fixed
<1>5. Doomed' => Doomed
  BY DEF Doomed, Fixed, chunks, remaining
<1>6. FailsOnlyDoomed'
  BY <1>5 DEF FailsOnlyDoomed
<1> QED BY <1>1, <1>2, <1>3, <1>4, <1>6 DEF IInv

(* What the device may hold when a call is over: the prefix before it or,   *)
(* if it was not refused, the prefix that it makes longer.                  *)
LEMMA RequestEnds ==
  ASSUME IInv, at \in Pending, NEW n \in Nat, regs + n <= content.size
  PROVE  /\ regs \in 0..content.size /\ regs % Chunk = 0
         /\ holding = Written(regs) /\ holding \in [0..(Space - 1) -> Words]
         /\ regs + n \in 0..content.size
         /\ ~Refused(address, n) /\ Stored(n) =>
              holding' = Written(regs + n) /\ holding' \in [0..(Space - 1) -> Words]
<1>1. /\ Types /\ Sound(content) /\ address = first + regs /\ holding = Written(regs)
      /\ regs = chunk * Chunk
  BY DEF IInv, Underway
<1>2. regs % Chunk = 0
  <2>1. chunk \in Nat
    <3>1. content.size \in Nat /\ chunk \in 0..chunks
      BY <1>1 DEF Types
    <3>2. chunks \in Nat
      BY <3>1, Geometry
    <3> QED BY <3>1, <3>2
  <2> QED BY <1>1, <2>1, Sizes, MultipleModulus
<1>3. /\ regs \in 0..content.size /\ regs + n \in 0..content.size
      /\ holding \in [0..(Space - 1) -> Words]
  BY <1>1 DEF Types
<1> QED BY <1>1, <1>2, <1>3, StoredPrefix

(* modbus_write_registers when it throws.                                   *)
LEMMA RequestFails ==
  ASSUME IInv, at \in Pending, NEW n \in Nat, regs + n <= content.size,
         (regs + n) % Chunk = 0 \/ regs + n = content.size,
         Throw, UNCHANGED Fixed,
         \/ Refused(address, n) /\ UNCHANGED <<holding, fault>>
         \/ ~Refused(address, n) /\ fault' = TRUE /\ (Stored(n) \/ UNCHANGED holding),
         Refused(address, n) => Doomed
  PROVE  IInv'
<1>1. at' = "failed" /\ UNCHANGED <<Fixed, cursor>> /\ fault' \in BOOLEAN
      /\ (fault' \/ Doomed)
  BY DEF Throw, IInv, Types
<1>2. CASE UNCHANGED holding
  BY <1>1, <1>2, RequestEnds, FailingKeeps
<1>3. CASE ~Refused(address, n) /\ Stored(n)
  BY <1>1, <1>3, RequestEnds, FailingKeeps
<1> QED BY <1>2, <1>3

(* Whether a command is doomed, by its kind.                                *)
LEMMA DoomedWrite ==
  ASSUME IInv, at \in {"remaining", "write"}
  PROVE  /\ regs + remaining = content.size /\ remaining \in Nat
         /\ at = "write" => remaining = 1
         /\ Refused(address, remaining) <=> Doomed
<1>1. /\ Types /\ Underway /\ Calling /\ at \in Pending
  BY DEF IInv, Pending
<1>2. content.size \in Nat /\ first \in Int
  BY <1>1 DEF Types
<1>3. Chunk \in Nat /\ Chunk > 1 /\ Most \in Nat /\ Space \in Nat \ {0}
  BY Sizes
<1>4. /\ chunks \in Nat /\ remaining \in 0..(Chunk - 1)
      /\ content.size = chunks * Chunk + remaining
      /\ content.size < Chunk => chunks = 0 /\ remaining = content.size
  BY <1>2, Geometry
<1>5. chunk = chunks /\ count = 0 /\ (at = "write" => remaining = 1)
  BY <1>1, <1>3, <1>4 DEF Calling
<1>6. regs = chunks * Chunk /\ address = first + chunks * Chunk
  BY <1>1, <1>5 DEF Underway
<1>7. \A c \in 0..(chunks - 1) : Wire(first + c * Chunk) + Chunk <= Space
  BY <1>1, <1>5 DEF Underway
<1>8. Wire(first) + count <= Space /\ count \in 0..Most
  <2>1. first % Space \in 0..(Space - 1)
    BY <1>2, <1>3, Division
  <2> QED BY <1>3, <1>5, <2>1 DEF Wire
<1>9. Wire(address) \in Int
  <2>1. chunks * Chunk \in Nat
    BY <1>3, <1>4, ProductNat
  <2>2. address \in Int
    BY <1>2, <1>6, <2>1
  <2> QED BY <1>3, <2>2, Division DEF Wire
<1>10. ASSUME Refused(address, remaining) PROVE Doomed
  <2>1. CASE Wire(address) + remaining > Space
    <3>1. chunks \in 0..chunks
      BY <1>4
    <3> QED BY <1>6, <2>1, <3>1 DEF Doomed
  <2>2. CASE remaining = 0 /\ strict
    BY <1>5, <2>2 DEF Doomed
  <2> QED BY <1>10, <2>1, <2>2 DEF Refused
<1>11. ASSUME ~Refused(address, remaining) PROVE ~Doomed
  <2>1. ~(Wire(address) + remaining > Space) /\ ~(remaining = 0 /\ strict)
    BY <1>11 DEF Refused
  <2>2. ASSUME NEW c \in 0..chunks,
               Wire(first + c * Chunk) + (IF c = chunks THEN remaining ELSE Chunk) > Space
        PROVE  FALSE
    <3>1. CASE c = chunks
      BY <1>6, <2>1, <2>2, <3>1
    <3>2. CASE c # chunks
      <4>1. c \in 0..(chunks - 1)
        BY <1>4, <3>2
      <4>2. Wire(first + c * Chunk) + Chunk <= Space
        BY <1>7, <4>1
      <4>3. Wire(first + c * Chunk) \in Int
        <5>1. c * Chunk \in Nat
          BY <1>3, <4>1, ProductNat
        <5>2. first + c * Chunk \in Int
          BY <1>2, <5>1
        <5> QED BY <1>3, <5>2, Division DEF Wire
      <4> QED BY <1>3, <2>2, <3>2, <4>2, <4>3
    <3> QED BY <3>1, <3>2
  <2>3. ~(Wire(first) + count > Space)
    <3>1. Wire(first) \in Int
      BY <1>2, <1>3, Division DEF Wire
    <3> QED BY <1>3, <1>5, <1>8, <3>1
  <2> QED BY <1>8, <2>1, <2>2, <2>3 DEF Doomed
<1>12. regs + remaining = content.size
  BY <1>4, <1>6
<1> QED BY <1>4, <1>5, <1>10, <1>11, <1>12

(* The last request: one register, or what remains.                         *)
LEMMA LastRequestKeeps ==
  ASSUME IInv, at \in {"remaining", "write"},
         modbus_write_registers(remaining, at' = "completed" /\ UNCHANGED cursor)
  PROVE  IInv'
<1>1. /\ regs + remaining = content.size /\ remaining \in Nat
      /\ Refused(address, remaining) <=> Doomed
      /\ at \in Pending /\ content.size \in Nat
  BY DoomedWrite DEF Pending, IInv, Types
<1>2. UNCHANGED Fixed
  BY DEF modbus_write_registers, Fixed
<1>3. regs + remaining <= content.size
  BY <1>1
<1>4. CASE Refused(address, remaining) /\ Throw /\ UNCHANGED <<holding, fault>>
  BY <1>1, <1>2, <1>3, <1>4, RequestFails
<1>5. CASE /\ ~Refused(address, remaining) /\ Throw /\ fault' = TRUE
           /\ Stored(remaining) \/ UNCHANGED holding
  BY <1>1, <1>2, <1>3, <1>5, RequestFails
<1>6. CASE /\ ~Refused(address, remaining) /\ Stored(remaining)
           /\ at' = "completed" /\ UNCHANGED cursor /\ UNCHANGED fault
  <2>1. holding' = Written(content.size) /\ holding' \in [0..(Space - 1) -> Words]
    BY <1>1, <1>3, <1>6, RequestEnds
  <2> QED BY <1>1, <1>2, <1>6, <2>1, CompletingKeeps
<1> QED BY <1>4, <1>5, <1>6 DEF modbus_write_registers

LEMMA WriteKeeps ==
  ASSUME IInv, write_holding_register
  PROVE  IInv'
<1>1. at = "write" /\ remaining = 1
  BY DoomedWrite DEF write_holding_register
<1> QED BY <1>1, LastRequestKeeps DEF write_holding_register

(* A whole chunk and the step to the next one.                              *)
LEMMA ChunkKeeps ==
  ASSUME IInv, at = "chunk", modbus_write_registers(Chunk, NextChunk)
  PROVE  IInv'
<1>0. Chunk \in Nat /\ Chunk > 1 /\ Space \in Nat \ {0}
  BY Sizes
<1>1. /\ Types /\ Underway /\ at \in Pending /\ chunk < chunks /\ count = 0
      /\ content.size \in Nat
  BY DEF IInv, Calling, Pending, Types
<1>2. /\ Sound(content) /\ ~fault /\ address = first + regs /\ regs = chunk * Chunk
      /\ \A c \in 0..(chunk - 1) : Wire(first + c * Chunk) + Chunk <= Space
  BY <1>1 DEF Underway
<1>3. chunks \in Nat /\ chunk \in Nat /\ first \in Int
  <2>1. chunks \in Nat
    BY <1>1, Geometry
  <2> QED BY <1>1, <2>1 DEF Types
<1>4. /\ regs \in Nat /\ (chunk + 1) * Chunk = regs + Chunk
      /\ regs + Chunk <= content.size
  BY <1>1, <1>2, <1>3, ChunkFits
<1>5. (regs + Chunk) % Chunk = 0
  <2>1. chunk + 1 \in Nat /\ Chunk \in Nat \ {0}
    BY <1>0, <1>3
  <2>2. ((chunk + 1) * Chunk) % Chunk = 0
    BY <2>1, MultipleModulus
  <2> QED BY <1>4, <2>2
<1>6. UNCHANGED Fixed
  BY DEF modbus_write_registers, Fixed
<1>7. Wire(address) \in Int
  <2>1. address \in Int
    BY <1>2, <1>3, <1>4
  <2> QED BY <1>0, <2>1, Division DEF Wire
<1>8. Refused(address, Chunk) => Doomed
  <2> SUFFICES ASSUME Refused(address, Chunk) PROVE Doomed
    OBVIOUS
  <2>1. Wire(first + chunk * Chunk) + Chunk > Space
    BY <1>0, <1>2 DEF Refused
  <2>2. chunk \in 0..chunks /\ chunk # chunks
    BY <1>1, <1>3
  <2> QED BY <2>1, <2>2 DEF Doomed
<1>9. CASE Refused(address, Chunk) /\ Throw /\ UNCHANGED <<holding, fault>>
  BY <1>0, <1>1, <1>4, <1>5, <1>6, <1>8, <1>9, RequestFails
<1>10. CASE /\ ~Refused(address, Chunk) /\ Throw /\ fault' = TRUE
            /\ Stored(Chunk) \/ UNCHANGED holding
  BY <1>0, <1>1, <1>4, <1>5, <1>6, <1>10, RequestFails
<1>11. CASE ~Refused(address, Chunk) /\ Stored(Chunk) /\ NextChunk /\ UNCHANGED fault
  <2>1. holding' = Written(regs + Chunk) /\ holding' \in [0..(Space - 1) -> Words]
    BY <1>0, <1>1, <1>4, <1>11, RequestEnds
  <2>2. /\ chunk' = chunk + 1 /\ address' = address + Chunk /\ regs' = regs + Chunk
        /\ at' = IF chunk + 1 = chunks THEN "remaining" ELSE "chunk"
        /\ fault' = fault
    BY <1>11 DEF NextChunk
  <2>3. chunks' = chunks /\ first' = first /\ content' = content /\ count' = count
        /\ before' = before /\ strict' = strict
    BY <1>6 DEF Fixed, chunks
  <2>4. Types'
    <3>1. at' \in Over \cup Pending
      BY <2>2 DEF Pending
    <3>2. regs' \in 0..content'.size /\ chunk' \in 0..chunks' /\ address' \in Int
      BY <1>0, <1>1, <1>2, <1>3, <1>4, <2>2, <2>3
    <3> QED BY <1>1, <2>1, <2>2, <2>3, <3>1, <3>2 DEF Types
  <2>5. Underway'
    <3>1. Sound(content)' /\ ~fault'
      BY <1>2, <2>2, <2>3 DEF Sound
    <3>2. address' = first' + regs' /\ regs' = chunk' * Chunk
      BY <1>0, <1>2, <1>3, <1>4, <2>2, <2>3
    <3>3. holding' = Written(regs)'
      BY <2>1, <2>2, <2>3 DEF Written
    <3>4. ASSUME NEW c \in 0..(chunk' - 1)
          PROVE  Wire(first' + c * Chunk) + Chunk <= Space
      <4>1. CASE c \in 0..(chunk - 1)
        BY <1>2, <2>3, <4>1
      <4>2. CASE c = chunk
        BY <1>0, <1>2, <1>7, <1>11, <2>3, <4>2 DEF Refused
      <4> QED BY <1>3, <2>2, <4>1, <4>2
    <3> QED BY <3>1, <3>2, <3>3, <3>4 DEF Underway
  <2>6. Calling'
    BY <1>1, <1>3, <2>2, <2>3 DEF Calling
  <2>7. PrefixWritten'
    <3>1. regs + Chunk \in 0..content.size
      BY <1>0, <1>1, <1>4
    <3> QED BY <1>5, <2>1, <2>3, <3>1 DEF PrefixWritten, Written
  <2>8. CompletedWhole' /\ FailsOnlyDoomed'
    BY <2>2 DEF CompletedWhole, FailsOnlyDoomed
  <2> QED BY <2>4, <2>5, <2>6, <2>7, <2>8 DEF IInv
<1> QED BY <1>9, <1>10, <1>11 DEF modbus_write_registers

LEMMA ReadKeeps ==
  ASSUME IInv, read_holding_registers
  PROVE  IInv'
<1>0. Chunk \in Nat /\ Chunk > 1 /\ Most \in Nat /\ Space \in Nat \ {0}
  BY Sizes
<1>1. /\ at \in Pending /\ Types /\ content.size = 0 /\ chunk = 0
      /\ first \in Int /\ count \in Int /\ fault \in BOOLEAN
      /\ UNCHANGED <<Fixed, holding>>
  BY DEF IInv, read_holding_registers, Pending, Calling, Types, Fixed
<1>2. regs = 0 /\ address = first /\ holding = Written(0)
      /\ holding \in [0..(Space - 1) -> Words]
  <2>1. regs = 0
    BY <1>1 DEF Types
  <2> QED BY <1>1, <2>1 DEF IInv, Underway, Types
<1>3. chunks = 0 /\ remaining = 0
  BY <1>0, <1>1, Geometry
<1>4. Wire(first) \in 0..(Space - 1) /\ Wire(first + 0 * Chunk) = Wire(first)
  BY <1>0, <1>1, Division DEF Wire
<1>5. 0 % Chunk = 0
  BY <1>0, SmallModulus
<1>6. Doomed <=> (count \notin 0..Most \/ Refused(address, count))
  <2>1. \A c \in 0..chunks :
          ~(Wire(first + c * Chunk) + (IF c = chunks THEN remaining ELSE Chunk) > Space)
    BY <1>0, <1>3, <1>4
  <2> QED BY <1>2, <1>3, <2>1 DEF Doomed, Refused
<1>7. CASE (count \notin 0..Most \/ Refused(address, count)) /\ Throw /\ UNCHANGED fault
  BY <1>1, <1>2, <1>5, <1>6, <1>7, FailingKeeps DEF Throw
<1>8. CASE Throw /\ fault' = TRUE
  BY <1>1, <1>2, <1>5, <1>8, FailingKeeps DEF Throw
<1>9. CASE /\ ~(count \notin 0..Most \/ Refused(address, count))
           /\ at' = "completed" /\ UNCHANGED <<cursor, fault>>
  BY <1>1, <1>2, <1>6, <1>9, CompletingKeeps
<1> QED BY <1>7, <1>8, <1>9 DEF read_holding_registers

-------------------------------------------------------------------------------
(* The theorems.                                                            *)

LEMMA Initially == Init => IInv
<1> SUFFICES ASSUME Init PROVE IInv
  OBVIOUS
<1>0. /\ Chunk \in Nat /\ Chunk > 1 /\ Space \in Nat \ {0} /\ Radix \in Nat \ {0}
  BY Sizes
<1>1. content.size = 0 /\ content = Nothing
  BY DEF Init, Nothing
<1>2. holding \in [0..(Space - 1) -> Words] /\ before \in [0..(Space - 1) -> Words]
  BY <1>0 DEF Init, Words
<1>3. first \in Int /\ holding = before
  BY DEF Init
<1>4. holding = Written(0)
  BY <1>2, <1>3, NothingWritten
<1>5. chunks = 0
  BY <1>0, <1>1, Geometry
<1>6. Types
  <2>1. content \in Files \cup {Nothing} \cup {One(v) : v \in Values}
    BY <1>1
  <2>2. regs \in 0..content.size /\ chunk \in 0..chunks /\ content.size \in Nat
    BY <1>1, <1>5 DEF Init
  <2>3. /\ at \in Over /\ first \in Int /\ address \in Int /\ count \in Int
        /\ strict \in BOOLEAN /\ fault \in BOOLEAN
    <3>1. strict \in BOOLEAN /\ fault \in BOOLEAN
      BY Zenon DEF Init
    <3>2. at \in Over /\ first \in Int /\ address \in Int /\ count \in Int
      BY DEF Init, Over
    <3> QED BY <3>1, <3>2
  <2>4. at \in Over \cup Pending
    BY <2>3
  <2> QED BY <1>2, <2>1, <2>2, <2>3, <2>4 DEF Types
<1>7. Underway /\ Calling /\ CompletedWhole /\ FailsOnlyDoomed
  BY DEF Init, Underway, Calling, CompletedWhole, FailsOnlyDoomed, Pending
<1>8. PrefixWritten
  <2>1. 0 \in 0..content.size /\ (0 = content.size)
    BY <1>1
  <2> QED BY <1>4, <2>1 DEF PrefixWritten
<1> QED BY <1>6, <1>7, <1>8 DEF IInv

LEMMA StutteringKeeps ==
  ASSUME IInv, UNCHANGED vars
  PROVE  IInv'
BY DEF IInv, vars, cursor, Types, Underway, Calling, PrefixWritten, CompletedWhole,
       FailsOnlyDoomed, Doomed, Sound, Written, chunks, remaining

LEMMA StepKeeps == IInv /\ [Next]_vars => IInv'
<1> SUFFICES ASSUME IInv, [Next]_vars PROVE IInv'
  OBVIOUS
<1>1. ASSUME write_multiple_registers PROVE IInv'
  BY <1>1, ChunkKeeps, LastRequestKeeps DEF write_multiple_registers
<1> QED BY <1>1, CommandsKeep, WriteKeeps, ReadKeeps, StutteringKeeps DEF Next, Calls

LEMMA Invariance == Spec => []IInv
BY Initially, StepKeeps, PTL DEF Spec

(* No register of the device ever holds a value beyond its width.           *)
THEOREM OneShotTypes == Spec => []TypeOK
<1>1. IInv => TypeOK
  BY DEF IInv, Types, TypeOK, Pending
<1> QED BY <1>1, Invariance, PTL

(* Whatever is lost or refused and however the addresses wrap, the device   *)
(* holds a prefix of the file and nothing else has changed.                 *)
THEOREM DeviceHoldsPrefix == Spec => []PrefixWritten
<1>1. IInv => PrefixWritten
  BY DEF IInv
<1> QED BY <1>1, Invariance, PTL

(* A transfer that returns has written the whole file.                      *)
THEOREM TransferIsWhole == Spec => []CompletedWhole
<1>1. IInv => CompletedWhole
  BY DEF IInv
<1> QED BY <1>1, Invariance, PTL

(* When nothing is lost a command fails exactly for the reasons of Doomed.  *)
THEOREM OnlyDoomedFail == Spec => []FailsOnlyDoomed
<1>1. IInv => FailsOnlyDoomed
  BY DEF IInv
<1> QED BY <1>1, Invariance, PTL
===============================================================================
