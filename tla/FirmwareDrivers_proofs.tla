----------------------- MODULE FirmwareDrivers_proofs -----------------------
(***************************************************************************)
(* Machine-checked proofs about the drivers of the firmware: the embedded  *)
(* non-volatile memory, for every device, protection, offset and length;   *)
(* the Micron flash, for every size of the page, the block, the sector and *)
(* the flash, every address and length, and restarts of the MSS at any     *)
(* point of a function; the DMA, for every number of descriptors and       *)
(* transfers of every length the ring can take; the UART, for FIFOs of     *)
(* every size, messages of every length and an interrupt between any two   *)
(* steps of a call; and the pins, for ports and registers of every width   *)
(* and a handler that sets any pin between any two accesses of a call.     *)
(***************************************************************************)
EXTENDS MssNvm, MicronFlash, MssHpdma, MssUart, GpioPorts, SequenceTheorems, FiniteSetTheorems, TLAPS

----------------------------------------------------------------------------
(* The embedded non-volatile memory.                                       *)

NvmParts    == {"005", "010", "025-050", "060", "090-150"}
Protection  == {READ_ONLY, WRITE_ONLY, NO_READ_WRITE, WRITE_ENABLED}
Owners      == {"none", "m3", "other"}
NvmOps      == {"none", "write", "unlock", "count"}
Places      == {"free", "request0", "request1", "page", "verify", "release", "return", "returned"}
Statuses    == {"SUCCESS", "INVALID_PARAMETER", "PROTECTION_ERROR", "PAGE_LOCK_ERROR",
                "VERIFY_FAILURE", "WRITE_THRESHOLD_WARNING", "IN_USE_BY_OTHER_MASTER",
                "PAGE_LOCK_WARNING"}
Good        == {"SUCCESS", "WRITE_THRESHOLD_WARNING"}

NvmRecord  == [op : NvmOps, at : Places, offset : Nat, length : Nat, page : Nat, remaining : Nat,
               lock : BOOLEAN, asked : BOOLEAN, status : Statuses, warning : BOOLEAN,
               locks : SUBSET {0, 1}]
EnvmRecord == [device : NvmParts, protect : [0..3 -> Protection], owner : [{0, 1} -> Owners],
               cr : {"design", "max"}]
DoneRecord == [programmed : SUBSET Int, verified : SUBSET Int, locked : SUBSET Int,
               unlocked : SUBSET Int]

NvmTypes == nvm \in NvmRecord /\ envm \in EnvmRecord /\ nvmDone \in DoneRecord

(* The driver holds what it has noted in g_nvm_lock, and nothing when it   *)
(* is about to return.                                                     *)
Access ==
  /\ \A b \in {0, 1} : b \in nvm.locks <=> envm.owner[b] = "m3"
  /\ nvm.at \in {"free", "return", "returned", "request0"} => nvm.locks = {}
  /\ nvm.at = "returned" => envm.cr = "design"

(* From the request on the range has passed the check.                     *)
Checked ==
  nvm.at \in {"request0", "request1", "page", "verify"} /\ nvm.op # "count" =>
    /\ nvm.length > 0
    /\ check_protection_reserved_nvm(envm.device, envm.protect, nvm.offset, nvm.length) = "SUCCESS"

(* Access is asked for to each block the range reaches into.               *)
Asking ==
  /\ nvm.at = "request0" => nvm.offset < NVM1_BOTTOM_OFFSET
  /\ nvm.at = "request1" /\ nvm.offset < NVM1_BOTTOM_OFFSET => 0 \in nvm.locks
  /\ nvm.at \in {"page", "verify"} =>
       /\ nvm.offset < NVM1_BOTTOM_OFFSET => 0 \in nvm.locks
       /\ LastOf(nvm.offset, nvm.length) >= NVM1_BOTTOM_OFFSET => 1 \in nvm.locks

(* How far the loop over the pages has come.                               *)
Progress ==
  /\ nvm.at \in {"request0", "request1"} =>
       /\ nvm.page = nvm.offset /\ nvm.remaining = nvm.length /\ nvm.status = "SUCCESS"
       /\ nvmDone.programmed = {} /\ nvmDone.verified = {} /\ nvmDone.locked = {} /\ nvmDone.unlocked = {}
  /\ nvm.at \in {"page", "verify"} /\ nvm.op # "count" =>
       /\ nvm.offset <= nvm.page /\ nvm.remaining > 0
       /\ nvm.page + nvm.remaining = nvm.offset + nvm.length
       /\ nvm.status \in Good

(* What has been done to the pages before the one the loop is at.          *)
Before(p) == PageOf(nvm.offset)..(p - 1)

Done ==
  LET p == PageOf(nvm.page)
  IN  /\ nvm.at = "page" /\ nvm.op = "write" =>
           /\ nvmDone.programmed = Before(p) /\ nvmDone.verified = Before(p)
           /\ nvm.lock => nvmDone.locked = Before(p)
      /\ nvm.at = "page" /\ nvm.op = "unlock" => nvmDone.unlocked = Before(p)
      /\ nvm.at = "verify" =>
           /\ nvm.op = "write"
           /\ nvmDone.programmed = Before(p + 1) /\ nvmDone.verified = Before(p)
           /\ nvm.lock => nvmDone.locked = Before(p + 1)
      /\ nvm.at \in {"release", "return", "returned"}
         /\ nvm.status \in Good \cup {"PAGE_LOCK_WARNING"} =>
           /\ nvm.op = "write" => /\ nvmDone.programmed = PagesAsked /\ nvmDone.verified = PagesAsked
                                  /\ nvm.lock => nvmDone.locked = PagesAsked
           /\ nvm.op = "unlock" => nvmDone.unlocked = PagesAsked

(* A lock that was asked for is kept or warned about.                      *)
Locking ==
  /\ nvm.asked => nvm.op = "write"
  /\ nvm.asked /\ envm.device # "010" => nvm.lock \/ nvm.warning
  /\ nvm.at = "returned" /\ nvm.status = "SUCCESS" => ~nvm.warning

NvmInv == NvmTypes /\ Access /\ Checked /\ Asking /\ Progress /\ Done /\ Locking

----------------------------------------------------------------------------
(* Arithmetic of pages. *)

LEMMA PageSplit ==
  ASSUME NEW x \in Nat
  PROVE  /\ PageOf(x) \in Nat /\ (x % BYTES_PER_PAGE) \in 0..127
         /\ x = (128 * PageOf(x)) + (x % BYTES_PER_PAGE)
BY DEF PageOf, BYTES_PER_PAGE

LEMMA PageUnique ==
  ASSUME NEW x \in Nat, NEW p \in Nat, 128 * p <= x, x < (128 * p) + 128
  PROVE  PageOf(x) = p
BY PageSplit DEF PageOf, BYTES_PER_PAGE

(* What is written at once ends with the page or with the data.            *)
LEMMA RemainingLength ==
  ASSUME NEW x \in Nat, NEW r \in Nat \ {0}
  PROVE  LET n == get_remaining_page_length(x, r)
         IN  /\ n \in Nat \ {0} /\ n <= r
             /\ (x % BYTES_PER_PAGE) + n <= 128
             /\ n < r => (x % BYTES_PER_PAGE) + n = 128
             /\ n = Least2(r, BYTES_PER_PAGE - (x % BYTES_PER_PAGE))
<1> DEFINE n == get_remaining_page_length(x, r)
           m == x % BYTES_PER_PAGE
<1>1. /\ PageOf(x) \in Nat /\ m \in 0..127 /\ x = (128 * PageOf(x)) + m
      /\ PageOf(x + r) \in Nat /\ 128 * PageOf(x + r) <= x + r
      /\ x + r < (128 * PageOf(x + r)) + 128
  <2>1. x + r \in Nat
    OBVIOUS
  <2>2. /\ PageOf(x) \in Nat /\ m \in 0..127 /\ x = (128 * PageOf(x)) + m
    BY PageSplit
  <2>3. /\ PageOf(x + r) \in Nat /\ ((x + r) % BYTES_PER_PAGE) \in 0..127
        /\ x + r = (128 * PageOf(x + r)) + ((x + r) % BYTES_PER_PAGE)
    BY <2>1, PageSplit
  <2> DEFINE m2 == (x + r) % BYTES_PER_PAGE
             p2 == PageOf(x + r)
  <2>4. p2 \in Nat /\ m2 \in 0..127 /\ x + r = (128 * p2) + m2
    BY <2>3
  <2> HIDE DEF m2, p2
  <2>5. 128 * p2 <= x + r /\ x + r < (128 * p2) + 128
    BY <2>4
  <2> QED BY <2>2, <2>4, <2>5 DEF p2
<1>2. n = IF PageOf(x + r) >= PageOf(x) + 1 THEN 128 - m ELSE r
  BY DEF get_remaining_page_length, PageOf, BYTES_PER_PAGE
<1>3. Least2(r, BYTES_PER_PAGE - m) = IF r < 128 - m THEN r ELSE 128 - m
  BY DEF Least2, BYTES_PER_PAGE
<1> HIDE DEF n, m
<1>4. CASE PageOf(x + r) >= PageOf(x) + 1
  <2>1. x + r >= (128 * PageOf(x)) + 128
    BY <1>1, <1>4
  <2>2. n = 128 - m /\ r >= 128 - m
    BY <1>1, <1>2, <1>4, <2>1
  <2> QED BY <1>1, <1>3, <2>2 DEF n, m
<1>5. CASE ~(PageOf(x + r) >= PageOf(x) + 1)
  <2>1. x + r < (128 * PageOf(x)) + 128
    BY <1>1, <1>5
  <2>2. n = r /\ r < 128 - m
    BY <1>1, <1>2, <1>5, <2>1
  <2> QED BY <1>1, <1>3, <2>2 DEF n, m
<1> QED BY <1>4, <1>5

(* So the loop goes from page to page and ends with the last one.          *)
LEMMA TurnsPage ==
  ASSUME NEW x \in Nat, NEW r \in Nat \ {0}
  PROVE  LET n == get_remaining_page_length(x, r)
         IN  /\ n < r => PageOf(x + n) = PageOf(x) + 1
             /\ n = r => PageOf(x + n - 1) = PageOf(x)
<1> DEFINE n == get_remaining_page_length(x, r)
           m == x % BYTES_PER_PAGE
<1>1. n \in Nat \ {0} /\ m + n <= 128 /\ (n < r => m + n = 128)
  BY RemainingLength
<1>2. PageOf(x) \in Nat /\ m \in 0..127 /\ x = (128 * PageOf(x)) + m
  BY PageSplit
<1> HIDE DEF n, m
<1>3. ASSUME n < r PROVE PageOf(x + n) = PageOf(x) + 1
  <2>1. x + n = 128 * (PageOf(x) + 1)
    BY <1>1, <1>2, <1>3
  <2> QED BY <1>1, <1>2, <2>1, PageUnique
<1>4. PageOf(x + n - 1) = PageOf(x)
  <2>1. 128 * PageOf(x) <= x + n - 1 /\ x + n - 1 < (128 * PageOf(x)) + 128
    BY <1>1, <1>2
  <2> QED BY <1>1, <1>2, <2>1, PageUnique
<1> QED BY <1>3, <1>4 DEF n

(* Every byte of the write buffer is the caller's or the page's: the words *)
(* before the data and after it come from the page.                        *)
LEMMA BufferFilled ==
  ASSUME NEW x \in Nat, NEW n \in Nat \ {0}, (x % BYTES_PER_PAGE) + n <= 128
  PROVE  \A i \in 0..(BYTES_PER_PAGE - 1) : fill_wd_buffer(x, n)[i] # "stale"
<1> DEFINE wd == x % BYTES_PER_PAGE
           lead == (wd \div 4) + IF wd % 4 > 0 THEN 1 ELSE 0
           end == (x + n) % BYTES_PER_PAGE
<1> SUFFICES ASSUME NEW i \in 0..127, ~(wd <= i /\ i < wd + n)
             PROVE  n # 128 /\ ((i \div 4) < lead \/ (i \div 4) >= (end \div 4))
  BY DEF fill_wd_buffer, BYTES_PER_PAGE
<1>1. wd \in 0..127 /\ x = (128 * PageOf(x)) + wd /\ PageOf(x) \in Nat
  BY PageSplit
<1>2. end \in 0..127 /\ x + n = (128 * PageOf(x + n)) + end /\ PageOf(x + n) \in Nat
  BY PageSplit
<1>3. wd + n < 128 => end = wd + n
  BY <1>1 DEF BYTES_PER_PAGE
<1> HIDE DEF wd, end
<1>4. wd + n <= 128 /\ ~(wd <= i /\ i < wd + n)
  BY DEF wd
<1>5. n # 128
  BY <1>1, <1>4
<1>6. CASE i < wd
  <2>1. wd = (4 * (wd \div 4)) + (wd % 4) /\ (wd % 4) \in 0..3 /\ (wd \div 4) \in Nat
    BY <1>1
  <2>2. i = (4 * (i \div 4)) + (i % 4) /\ (i % 4) \in 0..3 /\ (i \div 4) \in Nat
    OBVIOUS
  <2>3. (i \div 4) < lead
    BY <1>1, <1>6, <2>1, <2>2
  <2> QED BY <1>5, <2>3
<1>7. CASE i >= wd + n
  <2>1. wd + n < 128 /\ end <= i
    BY <1>1, <1>3, <1>7
  <2>2. (i \div 4) >= (end \div 4)
    BY <1>2, <2>1
  <2> QED BY <1>5, <2>2
<1> QED BY <1>1, <1>4, <1>6, <1>7

----------------------------------------------------------------------------
(* The regions of a device are made of whole pages.                        *)
LEMMA WholePages ==
  ASSUME NEW d \in NvmParts
  PROVE  /\ MapOf(d).reserved \in Nat /\ (MapOf(d).reserved % 128) = 0
         /\ MapOf(d).top \in Nat
         /\ \A r \in MapOf(d).regions :
              /\ r.u \in 0..3 /\ r.lo \in Nat /\ r.hi \in Nat
              /\ (r.lo % 128) = 0 /\ ((r.hi + 1) % 128) = 0
BY DEF NvmParts, MapOf, Map005, Map010, Map060, Map090, Region

(* A range that the check lets pass lies in pages that may be written: the *)
(* check looks at the bytes of the range, the controller writes its pages. *)
LEMMA RangeWritable ==
  ASSUME envm \in EnvmRecord, NEW offset \in Nat, NEW length \in Nat \ {0},
         check_protection_reserved_nvm(envm.device, envm.protect, offset, length) = "SUCCESS",
         NEW x \in Nat, offset <= x, x < offset + length
  PROVE  Writable(PageOf(x))
<1> DEFINE map == MapOf(envm.device)
           last == offset + length - 1
           lo == 128 * PageOf(x)
           hi == lo + 127
<1>1. LastOf(offset, length) = last
  BY DEF LastOf
<1>2. /\ \A r \in map.regions : \/ envm.protect[r.u] = WRITE_ENABLED
                                \/ ~Meets(r, offset, last)
                                \/ ~protection_check(envm.protect[r.u], length)
      /\ ~(last > map.top)
      /\ ~Meets(Region(0, map.reserved, map.top), offset, last)
  BY <1>1 DEF check_protection_reserved_nvm
<1>3. \A r \in map.regions : envm.protect[r.u] = WRITE_ENABLED \/ ~Meets(r, offset, last)
  BY <1>2 DEF protection_check
<1>4. /\ map.reserved \in Nat /\ (map.reserved % 128) = 0 /\ map.top \in Nat
      /\ \A r \in map.regions : /\ r.lo \in Nat /\ r.hi \in Nat
                                /\ (r.lo % 128) = 0 /\ ((r.hi + 1) % 128) = 0
  BY WholePages DEF EnvmRecord
<1>5. PageOf(x) \in Nat /\ lo <= x /\ x <= hi
  <2> DEFINE m == x % BYTES_PER_PAGE
  <2>1. PageOf(x) \in Nat /\ m \in 0..127 /\ x = (128 * PageOf(x)) + m
    BY PageSplit
  <2> HIDE DEF m
  <2> QED BY <2>1
<1>6. \A y \in Nat : (y % 128) = 0 => y = 128 * (y \div 128) /\ (y \div 128) \in Nat
  OBVIOUS
<1>7. hi < map.reserved
  <2>1. last < map.reserved
    BY <1>2, <1>4 DEF Meets, Region
  <2>2. x < map.reserved
    BY <1>4, <2>1
  <2>3. map.reserved = 128 * (map.reserved \div 128) /\ (map.reserved \div 128) \in Nat
    BY <1>4, <1>6
  <2> HIDE DEF map
  <2> QED BY <1>4, <1>5, <2>2, <2>3
<1>8. ASSUME NEW r \in map.regions, lo <= r.hi, r.lo <= hi PROVE envm.protect[r.u] = WRITE_ENABLED
  <2>1. r.lo \in Nat /\ r.lo = 128 * (r.lo \div 128) /\ (r.lo \div 128) \in Nat
    BY <1>4, <1>6
  <2>2. r.hi \in Nat /\ r.hi + 1 = 128 * ((r.hi + 1) \div 128) /\ ((r.hi + 1) \div 128) \in Nat
    BY <1>4, <1>6
  <2>3. r.lo <= lo
    BY <1>5, <1>8, <2>1
  <2>4. hi <= r.hi
    BY <1>5, <1>8, <2>2
  <2>5. r.lo <= x /\ x <= r.hi
    BY <1>5, <2>1, <2>2, <2>3, <2>4
  <2>6. Meets(r, offset, last)
    BY <2>1, <2>2, <2>5 DEF Meets
  <2> QED BY <1>3, <2>6
<1>9. PageOf(x) * BYTES_PER_PAGE = lo /\ lo + BYTES_PER_PAGE - 1 = hi
  BY <1>5 DEF BYTES_PER_PAGE
<1> HIDE DEF lo, hi
<1> QED BY <1>7, <1>8, <1>9 DEF Writable

----------------------------------------------------------------------------
(* The driver starts in the invariant.                                     *)
LEMMA InitNvmInv == NvmInit => NvmInv
<1> SUFFICES ASSUME NvmInit PROVE NvmInv
  OBVIOUS
<1>1. PICK d \in NvmDevices, p \in Protections :
        envm = [device |-> d, protect |-> p, owner |-> [b \in {0, 1} |-> "none"], cr |-> "design"]
  BY DEF NvmInit
<1>2. d \in NvmParts /\ p \in [0..3 -> Protection]
  <2>1. d \in NvmParts
    BY NvmAssumption DEF NvmParts
  <2>2. PICK v \in 0..3, m \in Protection : p = [u \in 0..3 |-> IF u = v THEN m ELSE WRITE_ENABLED]
    BY DEF Protections, Protection
  <2>3. WRITE_ENABLED \in Protection
    BY DEF Protection
  <2> QED BY <2>1, <2>2, <2>3
<1>3. envm \in EnvmRecord /\ \A b \in {0, 1} : envm.owner[b] = "none"
  BY <1>1, <1>2 DEF EnvmRecord, Owners
<1>4. nvm \in NvmRecord /\ nvm.at = "free" /\ nvm.locks = {} /\ ~nvm.asked
  BY DEF NvmInit, Resting, NvmRecord, NvmOps, Places, Statuses
<1>5. nvmDone \in DoneRecord
  BY DEF NvmInit, DoneRecord
<1> QED BY <1>3, <1>4, <1>5 DEF NvmInv, NvmTypes, Access, Checked, Asking, Progress, Done, Locking

(* A call notes its arguments; from the request on its range is checked.   *)
LEMMA NvmCallInv ==
  ASSUME NvmInv, NEW op \in {"write", "unlock", "count"}, NEW offset \in Nat, NEW length \in Nat,
         NEW asked \in BOOLEAN, asked => op = "write", op = "count" => length > 0,
         NvmCall(op, offset, length, asked)
  PROVE  NvmInv'
<1> DEFINE checked == check_protection_reserved_nvm(envm.device, envm.protect, offset,
                                                    IF op = "count" THEN 0 ELSE length)
           status  == IF ~Valid(offset, length, op) THEN "INVALID_PARAMETER" ELSE checked
           l       == LockOf(envm.device, envm.protect, offset, length, asked)
           at      == IF status # "SUCCESS" THEN "return"
                      ELSE IF offset < NVM1_BOTTOM_OFFSET THEN "request0" ELSE "request1"
           cr      == IF op = "count" THEN envm.cr ELSE "max"
<1>1. /\ nvm.at = "free"
      /\ nvm' = [Resting EXCEPT !.op = op, !.offset = offset, !.length = length,
                   !.page = offset, !.remaining = length, !.status = status,
                   !.lock = l.lock, !.asked = asked, !.warning = l.warning, !.at = at]
      /\ envm' = [envm EXCEPT !.cr = cr]
      /\ nvmDone' = [programmed |-> {}, verified |-> {}, locked |-> {}, unlocked |-> {}]
  BY DEF NvmCall
<1>2. status \in Statuses
  BY DEF Statuses, check_protection_reserved_nvm
<1>3. l.lock \in BOOLEAN /\ l.warning \in BOOLEAN
  BY DEF LockOf
<1>4. envm.device # "010" /\ asked => l.lock \/ l.warning
  BY DEF LockOf
<1>5. status = "SUCCESS" /\ op # "count" => length > 0 /\ checked = "SUCCESS"
  BY DEF Valid
<1>6. checked = "SUCCESS" /\ op # "count"
      => check_protection_reserved_nvm(envm.device, envm.protect, offset, length) = "SUCCESS"
  OBVIOUS
<1>7. nvm \in NvmRecord /\ envm \in EnvmRecord
  BY DEF NvmInv, NvmTypes
<1> HIDE DEF checked, status, l
<1>8. /\ nvm'.op = op /\ nvm'.offset = offset /\ nvm'.length = length /\ nvm'.page = offset
      /\ nvm'.remaining = length /\ nvm'.status = status /\ nvm'.lock = l.lock /\ nvm'.asked = asked
      /\ nvm'.warning = l.warning /\ nvm'.at = at /\ nvm'.locks = {}
  BY <1>1 DEF Resting
<1>9. /\ envm'.device = envm.device /\ envm'.protect = envm.protect /\ envm'.owner = envm.owner
      /\ envm'.cr = cr
  BY <1>1, <1>7 DEF EnvmRecord
<1>10. at \in Places
  BY DEF Places
<1>11. NvmTypes'
  <2>1. nvm' \in NvmRecord
    BY <1>1, <1>2, <1>3, <1>10 DEF Resting, NvmRecord, NvmOps
  <2>2. envm' \in EnvmRecord
    BY <1>1, <1>7 DEF EnvmRecord
  <2>3. nvmDone' \in DoneRecord
    BY <1>1 DEF DoneRecord
  <2> QED BY <2>1, <2>2, <2>3 DEF NvmTypes
<1>12. at \in {"return", "request0", "request1"} /\ (at = "request0" => offset < NVM1_BOTTOM_OFFSET)
       /\ (at = "request1" => ~(offset < NVM1_BOTTOM_OFFSET)) /\ (at # "return" => status = "SUCCESS")
       /\ (at = "return" => status # "SUCCESS")
  OBVIOUS
<1>13. Access'
  BY <1>1, <1>8, <1>9, <1>12 DEF NvmInv, Access
<1>14. Checked'
  BY <1>5, <1>6, <1>8, <1>9, <1>12 DEF Checked
<1>15. Asking'
  BY <1>8, <1>12 DEF Asking
<1>16. Progress'
  BY <1>1, <1>8, <1>12 DEF Progress
<1>17. Done'
  <2>1. status \notin Good \cup {"PAGE_LOCK_WARNING"} \/ status = "SUCCESS"
    BY DEF Good, status, checked, check_protection_reserved_nvm
  <2> QED BY <1>8, <1>12, <2>1 DEF Done
<1>18. Locking'
  BY <1>4, <1>8, <1>9, <1>12 DEF Locking
<1> QED BY <1>11, <1>13, <1>14, <1>15, <1>16, <1>17, <1>18 DEF NvmInv

(* A block is granted: the next one is asked for, or the loop begins.      *)
LEMMA GrantInv ==
  ASSUME NvmInv, NEW b \in {0, 1}, request_nvm_access(b, TRUE)
  PROVE  NvmInv'
<1> DEFINE last == LastOf(nvm.offset, nvm.length)
           at   == IF b = 0 /\ last >= NVM1_BOTTOM_OFFSET THEN "request1" ELSE "page"
<1>1. /\ nvm.at = IF b = 0 THEN "request0" ELSE "request1"
      /\ envm.owner[b] = "none" /\ envm' = [envm EXCEPT !.owner[b] = "m3"]
      /\ nvm' = [nvm EXCEPT !.locks = nvm.locks \cup {b}, !.at = at]
      /\ nvmDone' = nvmDone
  BY DEF request_nvm_access
<1>2. NvmTypes /\ Access /\ Checked /\ Asking /\ Progress /\ Done /\ Locking
  BY DEF NvmInv
<1>3. nvm \in NvmRecord /\ envm \in EnvmRecord /\ nvmDone \in DoneRecord
  BY <1>2 DEF NvmTypes
<1>4. /\ nvm'.op = nvm.op /\ nvm'.offset = nvm.offset /\ nvm'.length = nvm.length
      /\ nvm'.page = nvm.page /\ nvm'.remaining = nvm.remaining /\ nvm'.status = nvm.status
      /\ nvm'.lock = nvm.lock /\ nvm'.asked = nvm.asked /\ nvm'.warning = nvm.warning
      /\ nvm'.at = at /\ nvm'.locks = nvm.locks \cup {b}
  BY <1>1, <1>3 DEF NvmRecord
<1>5. /\ envm'.device = envm.device /\ envm'.protect = envm.protect /\ envm'.cr = envm.cr
      /\ \A x \in {0, 1} : envm'.owner[x] = IF x = b THEN "m3" ELSE envm.owner[x]
  BY <1>1, <1>3 DEF EnvmRecord
<1>6. at \in {"request1", "page"} /\ (at = "request1" => b = 0)
      /\ (b = 0 /\ at = "page" => ~(last >= NVM1_BOTTOM_OFFSET))
  OBVIOUS
<1>7. NvmTypes'
  <2>1. nvm' \in NvmRecord
    BY <1>1, <1>3 DEF NvmRecord, Places
  <2>2. envm' \in EnvmRecord
    BY <1>1, <1>3 DEF EnvmRecord, Owners
  <2> QED BY <1>1, <1>3, <2>1, <2>2 DEF NvmTypes
<1> HIDE DEF at
<1>8. Access'
  BY <1>2, <1>4, <1>5, <1>6 DEF Access
<1>9. Checked'
  BY <1>1, <1>2, <1>4, <1>5 DEF Checked
<1>10. Asking'
  <2>1. nvm'.at = "request1" => 0 \in nvm'.locks
    BY <1>4, <1>6
  <2>2. CASE b = 0
    <3>1. nvm.offset < NVM1_BOTTOM_OFFSET
      BY <1>1, <1>2, <2>2 DEF Asking
    <3>2. nvm'.at = "page" => ~(LastOf(nvm'.offset, nvm'.length) >= NVM1_BOTTOM_OFFSET)
      BY <1>4, <1>6, <2>2
    <3> QED BY <1>4, <1>6, <2>1, <2>2, <3>2 DEF Asking
  <2>3. CASE b = 1
    <3>1. nvm.offset < NVM1_BOTTOM_OFFSET => 0 \in nvm.locks
      BY <1>1, <1>2, <2>3 DEF Asking
    <3> QED BY <1>4, <1>6, <2>1, <2>3, <3>1 DEF Asking
  <2> QED BY <2>2, <2>3
<1>11. Progress'
  <2>1. /\ nvm.page = nvm.offset /\ nvm.remaining = nvm.length /\ nvm.status = "SUCCESS"
        /\ nvmDone.programmed = {} /\ nvmDone.verified = {} /\ nvmDone.locked = {} /\ nvmDone.unlocked = {}
    BY <1>1, <1>2 DEF Progress
  <2>2. nvm.op # "count" => nvm.length > 0
    BY <1>1, <1>2 DEF Checked
  <2>3. nvm.offset \in Nat /\ nvm.length \in Nat
    BY <1>3 DEF NvmRecord
  <2> QED BY <1>1, <1>4, <1>6, <2>1, <2>2, <2>3 DEF Progress, Good
<1>12. Done'
  <2>1. /\ nvm'.page = nvm'.offset
        /\ nvmDone'.programmed = {} /\ nvmDone'.verified = {} /\ nvmDone'.locked = {} /\ nvmDone'.unlocked = {}
    BY <1>1, <1>2, <1>4 DEF Progress
  <2>2. PageOf(nvm'.offset) \in Int
    BY <1>3, <1>4 DEF NvmRecord, PageOf, BYTES_PER_PAGE
  <2>3. Before(PageOf(nvm.page))' = {}
    BY <2>1, <2>2 DEF Before
  <2> QED BY <1>4, <1>6, <2>1, <2>3 DEF Done
<1>13. Locking'
  BY <1>2, <1>4, <1>5, <1>6 DEF Locking
<1> QED BY <1>7, <1>8, <1>9, <1>10, <1>11, <1>12, <1>13 DEF NvmInv

(* A block is refused: the one that was granted before is given back.      *)
LEMMA Released ==
  ASSUME NvmTypes, Access
  PROVE  /\ release_ctrl_access(envm.owner) \in [{0, 1} -> Owners]
         /\ \A b \in {0, 1} : release_ctrl_access(envm.owner)[b] # "m3"
BY DEF NvmTypes, Access, EnvmRecord, NvmRecord, Owners, release_ctrl_access

LEMMA GiveBackInv ==
  ASSUME NvmInv, NEW status \in Statuses,
         status = nvm.status \/ status \notin Good \cup {"PAGE_LOCK_WARNING"},
         nvm.at = "release" \/ status # nvm.status,
         nvm' = [nvm EXCEPT !.status = status, !.at = "return", !.locks = {}],
         envm' = [envm EXCEPT !.owner = release_ctrl_access(envm.owner)], nvmDone' = nvmDone
  PROVE  NvmInv'
<1>1. NvmTypes /\ Access /\ Done /\ Locking
  BY DEF NvmInv
<1>2. nvm \in NvmRecord /\ envm \in EnvmRecord /\ nvmDone \in DoneRecord
  BY <1>1 DEF NvmTypes
<1>3. /\ nvm'.op = nvm.op /\ nvm'.offset = nvm.offset /\ nvm'.length = nvm.length
      /\ nvm'.page = nvm.page /\ nvm'.status = status
      /\ nvm'.lock = nvm.lock /\ nvm'.asked = nvm.asked /\ nvm'.warning = nvm.warning
      /\ nvm'.at = "return" /\ nvm'.locks = {}
  BY <1>2 DEF NvmRecord
<1>4. envm'.device = envm.device /\ envm'.owner = release_ctrl_access(envm.owner)
  BY <1>2 DEF EnvmRecord
<1>5. NvmTypes'
  <2>1. nvm' \in NvmRecord
    BY <1>2 DEF NvmRecord, Places
  <2>2. envm' \in EnvmRecord
    BY <1>1, <1>2, Released DEF EnvmRecord
  <2> QED BY <1>2, <2>1, <2>2 DEF NvmTypes
<1>6. Access'
  BY <1>1, <1>3, <1>4, Released DEF Access
<1>7. Checked' /\ Asking' /\ Progress'
  BY <1>3 DEF Checked, Asking, Progress
<1>8. Done'
  <2>1. PagesAsked' = PagesAsked
    BY <1>3 DEF PagesAsked
  <2>2. nvm.at # "release" => status \notin Good \cup {"PAGE_LOCK_WARNING"}
    OBVIOUS
  <2> QED BY <1>1, <1>3, <2>1, <2>2 DEF Done
<1>9. Locking'
  BY <1>1, <1>3, <1>4 DEF Locking
<1> QED BY <1>5, <1>6, <1>7, <1>8, <1>9 DEF NvmInv

LEMMA RefuseInv ==
  ASSUME NvmInv, NEW b \in {0, 1}, request_nvm_access(b, FALSE)
  PROVE  NvmInv'
<1>1. /\ nvm.at \in {"request0", "request1"}
      /\ envm' = [envm EXCEPT !.owner = release_ctrl_access(envm.owner)]
      /\ nvm' = [nvm EXCEPT !.status = "IN_USE_BY_OTHER_MASTER", !.at = "return", !.locks = {}]
      /\ nvmDone' = nvmDone
  BY DEF request_nvm_access
<1>2. nvm.status = "SUCCESS"
  BY <1>1 DEF NvmInv, Progress
<1> QED BY <1>1, <1>2, GiveBackInv DEF Statuses, Good

LEMMA ReleaseInv == ASSUME NvmInv, nvm_release PROVE NvmInv'
<1>1. /\ nvm.at = "release"
      /\ envm' = [envm EXCEPT !.owner = release_ctrl_access(envm.owner)]
      /\ nvm' = [nvm EXCEPT !.locks = {}, !.at = "return"] /\ nvmDone' = nvmDone
  BY DEF nvm_release
<1>2. nvm \in NvmRecord
  BY DEF NvmInv, NvmTypes
<1>3. nvm' = [nvm EXCEPT !.status = nvm.status, !.at = "return", !.locks = {}]
  BY <1>1, <1>2 DEF NvmRecord
<1>4. nvm.status \in Statuses
  BY <1>2 DEF NvmRecord
<1> QED BY <1>1, <1>3, <1>4, GiveBackInv

(* The end of a page: the loop goes on at the start of the next one or, at *)
(* the end of the range or after an error, is over.                        *)
LEMMA AdvanceInv ==
  ASSUME NvmInv, nvm.at \in {"page", "verify"}, nvm.op \in {"write", "unlock"},
         NEW status \in Statuses \ {"PAGE_LOCK_WARNING"},
         nvm' = Advance(status, get_remaining_page_length(nvm.page, nvm.remaining)),
         envm' = envm, nvmDone' \in DoneRecord,
         GoesOn(status) =>
           /\ nvm.op = "write" =>
                /\ nvmDone'.programmed = Before(PageOf(nvm.page) + 1)
                /\ nvmDone'.verified = Before(PageOf(nvm.page) + 1)
                /\ nvm.lock => nvmDone'.locked = Before(PageOf(nvm.page) + 1)
           /\ nvm.op = "unlock" => nvmDone'.unlocked = Before(PageOf(nvm.page) + 1)
  PROVE  NvmInv'
<1> DEFINE n    == get_remaining_page_length(nvm.page, nvm.remaining)
           on   == nvm.remaining - n > 0 /\ GoesOn(status)
           rest == IF on THEN nvm.remaining - n ELSE 0
           at   == IF on THEN "page" ELSE "release"
<1>1. NvmTypes /\ Access /\ Checked /\ Asking /\ Progress /\ Done /\ Locking
  BY DEF NvmInv
<1>2. nvm \in NvmRecord /\ envm \in EnvmRecord
  BY <1>1 DEF NvmTypes
<1>3. nvm.page \in Nat /\ nvm.offset \in Nat /\ nvm.length \in Nat /\ nvm.remaining \in Nat \ {0}
  BY <1>1, <1>2 DEF Progress, NvmRecord
<1>4. /\ nvm.offset <= nvm.page /\ nvm.page + nvm.remaining = nvm.offset + nvm.length
      /\ nvm.op # "count" /\ nvm.length > 0
  BY <1>1 DEF Progress, Checked
<1>5. n \in Nat \ {0} /\ n <= nvm.remaining
  BY <1>3, RemainingLength
<1>6. (n < nvm.remaining => PageOf(nvm.page + n) = PageOf(nvm.page) + 1)
      /\ (n = nvm.remaining => PageOf(nvm.page + n - 1) = PageOf(nvm.page))
  BY <1>3, TurnsPage
<1>7. nvm' = [nvm EXCEPT !.status = status, !.page = nvm.page + n, !.remaining = rest, !.at = at]
  BY DEF Advance
<1> HIDE DEF n
<1>8. rest \in Nat /\ nvm.page + n \in Nat
  BY <1>3, <1>5
<1>9. /\ nvm'.op = nvm.op /\ nvm'.offset = nvm.offset /\ nvm'.length = nvm.length
      /\ nvm'.page = nvm.page + n /\ nvm'.remaining = rest /\ nvm'.status = status
      /\ nvm'.lock = nvm.lock /\ nvm'.asked = nvm.asked /\ nvm'.warning = nvm.warning
      /\ nvm'.at = at /\ nvm'.locks = nvm.locks
  BY <1>2, <1>7 DEF NvmRecord
<1>10. at \in {"page", "release"} /\ (at = "page" <=> on)
  OBVIOUS
<1>11. NvmTypes'
  <2>1. nvm' \in NvmRecord
    BY <1>2, <1>7, <1>8, <1>10 DEF NvmRecord, Places
  <2> QED BY <1>2, <2>1 DEF NvmTypes
<1>12. on => /\ n < nvm.remaining /\ rest > 0 /\ status \in Good
             /\ nvm.page + n + rest = nvm.offset + nvm.length /\ nvm.offset <= nvm.page + n
  BY <1>3, <1>4, <1>5 DEF GoesOn, Good
<1>13. GoesOn(status) /\ ~on => n = nvm.remaining
  BY <1>3, <1>5
<1> HIDE DEF on, rest, at
<1>14. Access'
  BY <1>1, <1>9, <1>10 DEF Access
<1>15. Checked'
  BY <1>1, <1>9, <1>10 DEF Checked
<1>16. Asking'
  BY <1>1, <1>9, <1>10 DEF Asking
<1>17. Progress'
  BY <1>9, <1>10, <1>12 DEF Progress
<1>18. Locking'
  BY <1>1, <1>9, <1>10 DEF Locking
<1>19. Done'
  <2>1. CASE on
    <3>1. nvm'.at = "page" /\ PageOf(nvm'.page) = PageOf(nvm.page) + 1 /\ GoesOn(status)
      BY <1>6, <1>9, <1>10, <1>12, <2>1 DEF on
    <3>2. Before(PageOf(nvm.page))' = Before(PageOf(nvm.page) + 1)
      BY <1>9, <3>1 DEF Before
    <3> QED BY <1>9, <3>1, <3>2 DEF Done
  <2>2. CASE ~on /\ GoesOn(status)
    <3>1. nvm'.at = "release" /\ n = nvm.remaining
      BY <1>9, <1>10, <1>13, <2>2
    <3>2. LastOf(nvm.offset, nvm.length) = nvm.page + n - 1
      BY <1>3, <1>4, <1>5, <3>1 DEF LastOf
    <3>3. PageOf(LastOf(nvm.offset, nvm.length)) = PageOf(nvm.page)
      BY <1>6, <3>1, <3>2
    <3>4. PagesAsked' = Before(PageOf(nvm.page) + 1)
      <4>1. PageOf(nvm.page) \in Nat
        BY <1>3, PageSplit
      <4>2. PagesAsked' = PageOf(nvm.offset)..PageOf(nvm.page)
        BY <1>9, <3>3 DEF PagesAsked
      <4>3. Before(PageOf(nvm.page) + 1) = PageOf(nvm.offset)..PageOf(nvm.page)
        BY <4>1 DEF Before
      <4> QED BY <4>2, <4>3
    <3> QED BY <1>9, <2>2, <3>1, <3>4 DEF Done
  <2>3. CASE ~GoesOn(status)
    <3>1. nvm'.at = "release" /\ status \notin Good \cup {"PAGE_LOCK_WARNING"}
      BY <1>9, <1>10, <2>3 DEF on, GoesOn, Good
    <3> QED BY <1>9, <3>1 DEF Done
  <2> QED BY <2>1, <2>2, <2>3
<1> QED BY <1>11, <1>14, <1>15, <1>16, <1>17, <1>18, <1>19 DEF NvmInv

(* A page more.                                                            *)
LEMMA OneMore ==
  ASSUME NvmInv, nvm.at \in {"page", "verify"}, nvm.op # "count"
  PROVE  Before(PageOf(nvm.page)) \cup {PageOf(nvm.page)} = Before(PageOf(nvm.page) + 1)
<1>1. nvm.offset \in Nat /\ nvm.page \in Nat /\ nvm.offset <= nvm.page
  BY DEF NvmInv, NvmTypes, NvmRecord, Progress
<1>2. PageOf(nvm.offset) \in Nat /\ PageOf(nvm.page) \in Nat /\ PageOf(nvm.offset) <= PageOf(nvm.page)
  <2> DEFINE m == nvm.offset % BYTES_PER_PAGE
             k == nvm.page % BYTES_PER_PAGE
  <2>1. /\ PageOf(nvm.offset) \in Nat /\ m \in 0..127 /\ nvm.offset = (128 * PageOf(nvm.offset)) + m
        /\ PageOf(nvm.page) \in Nat /\ k \in 0..127 /\ nvm.page = (128 * PageOf(nvm.page)) + k
    BY <1>1, PageSplit
  <2> HIDE DEF m, k
  <2> QED BY <1>1, <2>1
<1>3. \A p, q \in Nat : q <= p => (q..(p - 1)) \cup {p} = q..(p + 1 - 1)
  OBVIOUS
<1> QED BY <1>2, <1>3 DEF Before

LEMMA ErrorCodes ==
  ASSUME NEW bits \in Outcomes
  PROVE  /\ get_error_code(bits) \in Statuses \ {"PAGE_LOCK_WARNING"}
         /\ Errors(bits) => ~GoesOn(get_error_code(bits))
<1>1. get_error_code(bits) \in Statuses \ {"PAGE_LOCK_WARNING"}
  BY DEF get_error_code, Statuses
<1>2. CASE bits = {} \/ bits = {"WRCNT_OVER"}
  BY <1>1, <1>2 DEF Errors
<1>3. CASE bits = {"VERIFY_FAIL", "WRCNT_OVER"} \/ bits = {"PEFAIL_LOCK"} \/ bits = {"WR_DENIED", "PEFAIL_LOCK"}
  <2>1. CASE "WR_DENIED" \in bits
    <3>1. get_error_code(bits) = "PROTECTION_ERROR"
      BY <2>1 DEF get_error_code
    <3> QED BY <1>1, <3>1 DEF GoesOn
  <2>2. CASE "WR_DENIED" \notin bits /\ "PEFAIL_LOCK" \in bits
    <3>1. get_error_code(bits) = "PAGE_LOCK_ERROR"
      BY <2>2 DEF get_error_code
    <3> QED BY <1>1, <3>1 DEF GoesOn
  <2>3. CASE bits = {"VERIFY_FAIL", "WRCNT_OVER"}
    <3>1. get_error_code(bits) = "VERIFY_FAILURE"
      BY <2>3 DEF get_error_code
    <3> QED BY <1>1, <3>1 DEF GoesOn
  <2> QED BY <1>3, <2>1, <2>2, <2>3
<1> QED BY <1>2, <1>3 DEF Outcomes

(* A page is programmed, or refused.                                       *)
LEMMA WriteNvmInv == ASSUME NvmInv, NEW bits \in Outcomes, write_nvm(bits) PROVE NvmInv'
<1>1. nvm.at = "page" /\ nvm.op = "write" /\ envm' = envm
  BY DEF write_nvm
<1>2. NvmTypes /\ Access /\ Checked /\ Asking /\ Progress /\ Done /\ Locking
  BY DEF NvmInv
<1>3. nvm \in NvmRecord /\ envm \in EnvmRecord /\ nvmDone \in DoneRecord
  BY <1>2 DEF NvmTypes
<1>4. CASE Errors(bits)
  <2>1. nvm' = Advance(get_error_code(bits), get_remaining_page_length(nvm.page, nvm.remaining))
        /\ nvmDone' = nvmDone
    BY <1>4 DEF write_nvm
  <2> QED BY <1>1, <1>3, <1>4, <2>1, ErrorCodes, AdvanceInv
<1>5. CASE ~Errors(bits)
  <2> DEFINE p == PageOf(nvm.page)
             locked == IF nvm.lock THEN nvmDone.locked \cup {p} ELSE nvmDone.locked
  <2>1. /\ nvm' = [nvm EXCEPT !.at = "verify"]
        /\ nvmDone' = [nvmDone EXCEPT !.programmed = nvmDone.programmed \cup {p}, !.locked = locked]
    BY <1>5 DEF write_nvm
  <2>2. p \in Int
    BY <1>3, PageSplit DEF NvmRecord
  <2>3. /\ nvm'.op = nvm.op /\ nvm'.offset = nvm.offset /\ nvm'.length = nvm.length
        /\ nvm'.page = nvm.page /\ nvm'.remaining = nvm.remaining /\ nvm'.status = nvm.status
        /\ nvm'.lock = nvm.lock /\ nvm'.asked = nvm.asked /\ nvm'.warning = nvm.warning
        /\ nvm'.at = "verify" /\ nvm'.locks = nvm.locks
    BY <1>3, <2>1 DEF NvmRecord
  <2> HIDE DEF p
  <2>4. /\ nvmDone'.programmed = nvmDone.programmed \cup {p} /\ nvmDone'.verified = nvmDone.verified
        /\ nvmDone'.locked = locked
    BY <1>3, <2>1 DEF DoneRecord
  <2>5. NvmTypes'
    <3>1. nvm' \in NvmRecord
      BY <1>3, <2>1 DEF NvmRecord, Places
    <3>2. nvmDone' \in DoneRecord
      BY <1>3, <2>1, <2>2 DEF DoneRecord
    <3> QED BY <1>1, <1>3, <3>1, <3>2 DEF NvmTypes
  <2>6. Access' /\ Checked' /\ Asking' /\ Progress' /\ Locking'
    BY <1>1, <1>2, <2>3 DEF Access, Checked, Asking, Progress, Locking
  <2>7. Done'
    <3>1. nvmDone.programmed = Before(p) /\ nvmDone.verified = Before(p) /\ (nvm.lock => nvmDone.locked = Before(p))
      BY <1>1, <1>2 DEF Done, p
    <3>2. Before(p) \cup {p} = Before(p + 1)
      BY <1>1, OneMore DEF p
    <3>3. PageOf(nvm.page)' = p /\ Before(p)' = Before(p) /\ Before(p + 1)' = Before(p + 1)
      BY <2>3 DEF Before, p
    <3>4. nvmDone'.programmed = Before(p + 1) /\ nvmDone'.verified = Before(p)
          /\ (nvm.lock => nvmDone'.locked = Before(p + 1))
      BY <2>4, <3>1, <3>2
    <3> QED BY <1>1, <2>3, <3>3, <3>4 DEF Done, p, Before
  <2> QED BY <2>5, <2>6, <2>7 DEF NvmInv
<1> QED BY <1>4, <1>5

(* A page that was programmed is verified, or is not what it should be.    *)
LEMMA VerifyInv == ASSUME NvmInv, NEW bits \in Outcomes, verify(bits) PROVE NvmInv'
<1> DEFINE p == PageOf(nvm.page)
           n == get_remaining_page_length(nvm.page, nvm.remaining)
           status == IF bits = {} THEN nvm.status ELSE get_error_code(bits)
           verified == IF Errors(bits) THEN nvmDone.verified ELSE nvmDone.verified \cup {p}
<1>1. nvm.at = "verify" /\ envm' = envm /\ nvm' = Advance(status, n)
  BY DEF verify
<1>2. Done /\ Progress /\ nvmDone \in DoneRecord /\ nvm \in NvmRecord
  BY DEF NvmInv, NvmTypes
<1>3. nvm.op = "write" /\ nvmDone.programmed = Before(p + 1) /\ nvmDone.verified = Before(p)
      /\ (nvm.lock => nvmDone.locked = Before(p + 1))
  BY <1>1, <1>2 DEF Done
<1>4. nvm.status \in Good
  BY <1>1, <1>2, <1>3 DEF Progress
<1>5. status \in Statuses \ {"PAGE_LOCK_WARNING"}
  BY <1>4, ErrorCodes DEF Good, Statuses
<1>6. p \in Int
  BY <1>2, PageSplit DEF NvmRecord
<1>7. nvmDone' = [nvmDone EXCEPT !.verified = verified]
  BY <1>2 DEF verify, DoneRecord
<1> HIDE DEF p
<1>8. nvmDone' \in DoneRecord
  BY <1>2, <1>6, <1>7 DEF DoneRecord
<1>9. nvmDone'.programmed = nvmDone.programmed /\ nvmDone'.locked = nvmDone.locked
      /\ nvmDone'.verified = verified
  BY <1>2, <1>7 DEF DoneRecord
<1>10. GoesOn(status) => ~Errors(bits)
  BY ErrorCodes DEF Errors
<1>11. Before(p) \cup {p} = Before(p + 1)
  BY <1>1, <1>3, OneMore DEF p
<1>12. GoesOn(status) => nvmDone'.verified = Before(p + 1)
  BY <1>3, <1>9, <1>10, <1>11
<1> HIDE DEF status, n
<1> QED BY <1>1, <1>3, <1>5, <1>8, <1>9, <1>12, AdvanceInv DEF p, n

(* A page is unlocked.                                                     *)
LEMMA UnlockInv == ASSUME NvmInv, NEW bits \in Outcomes, unlock_page(bits) PROVE NvmInv'
<1> DEFINE p == PageOf(nvm.page)
           n == get_remaining_page_length(nvm.page, nvm.remaining)
           status == IF bits = {} THEN nvm.status ELSE get_error_code(bits)
           unlocked == IF Errors(bits) THEN nvmDone.unlocked ELSE nvmDone.unlocked \cup {p}
<1>1. nvm.at = "page" /\ nvm.op = "unlock" /\ envm' = envm
      /\ nvm' = Advance(status, Least2(nvm.remaining, BYTES_PER_PAGE - (nvm.page % BYTES_PER_PAGE)))
  BY DEF unlock_page
<1>2. Done /\ Progress /\ nvmDone \in DoneRecord /\ nvm \in NvmRecord
  BY DEF NvmInv, NvmTypes
<1>3. nvmDone.unlocked = Before(p)
  BY <1>1, <1>2 DEF Done
<1>4. nvm.status \in Good /\ nvm.page \in Nat /\ nvm.remaining \in Nat \ {0}
  BY <1>1, <1>2 DEF Progress, NvmRecord
<1>5. status \in Statuses \ {"PAGE_LOCK_WARNING"}
  BY <1>4, ErrorCodes DEF Good, Statuses
<1>6. p \in Int
  BY <1>4, PageSplit
<1>7. nvmDone' = [nvmDone EXCEPT !.unlocked = unlocked]
  BY <1>2 DEF unlock_page, DoneRecord
<1>8. nvm' = Advance(status, n)
  BY <1>1, <1>4, RemainingLength
<1> HIDE DEF p
<1>9. nvmDone' \in DoneRecord
  BY <1>2, <1>6, <1>7 DEF DoneRecord
<1>10. nvmDone'.unlocked = unlocked
  BY <1>2, <1>7 DEF DoneRecord
<1>11. GoesOn(status) => ~Errors(bits)
  BY ErrorCodes DEF Errors
<1>12. Before(p) \cup {p} = Before(p + 1)
  BY <1>1, OneMore DEF p
<1>13. GoesOn(status) => nvmDone'.unlocked = Before(p + 1)
  BY <1>3, <1>10, <1>11, <1>12
<1> HIDE DEF status, n
<1> QED BY <1>1, <1>5, <1>8, <1>9, <1>13, AdvanceInv DEF p, n

(* The write counter of the first page is read.                            *)
LEMMA CountInv == ASSUME NvmInv, read_count PROVE NvmInv'
<1>1. nvm.op = "count" /\ envm' = envm /\ nvmDone' = nvmDone /\ nvm' = [nvm EXCEPT !.at = "release"]
  BY DEF read_count
<1>2. nvm \in NvmRecord
  BY DEF NvmInv, NvmTypes
<1>3. /\ nvm'.op = nvm.op /\ nvm'.lock = nvm.lock /\ nvm'.asked = nvm.asked
      /\ nvm'.warning = nvm.warning /\ nvm'.at = "release" /\ nvm'.locks = nvm.locks
  BY <1>1, <1>2 DEF NvmRecord
<1>4. nvm' \in NvmRecord
  BY <1>1, <1>2 DEF NvmRecord, Places
<1>5. NvmTypes' /\ Access' /\ Checked' /\ Asking' /\ Progress' /\ Done'
  BY <1>1, <1>3, <1>4 DEF NvmInv, NvmTypes, Access, Checked, Asking, Progress, Done
<1>6. Locking'
  BY <1>1, <1>3 DEF NvmInv, Locking
<1> QED BY <1>5, <1>6 DEF NvmInv

(* ENVM_CR is put back and a dropped lock is reported.                     *)
LEMMA ReturnInv == ASSUME NvmInv, nvm_return PROVE NvmInv'
<1> DEFINE status == IF nvm.status = "SUCCESS" /\ nvm.warning THEN "PAGE_LOCK_WARNING" ELSE nvm.status
<1>1. /\ nvm.at = "return" /\ envm' = [envm EXCEPT !.cr = "design"] /\ nvmDone' = nvmDone
      /\ nvm' = [nvm EXCEPT !.at = "returned", !.status = status]
  BY DEF nvm_return
<1>2. nvm \in NvmRecord /\ envm \in EnvmRecord /\ nvmDone \in DoneRecord /\ Access /\ Done /\ Locking
  BY DEF NvmInv, NvmTypes
<1>3. /\ nvm'.op = nvm.op /\ nvm'.offset = nvm.offset /\ nvm'.length = nvm.length
      /\ nvm'.lock = nvm.lock /\ nvm'.asked = nvm.asked /\ nvm'.status = status
      /\ nvm'.warning = nvm.warning /\ nvm'.at = "returned" /\ nvm'.locks = nvm.locks
  BY <1>1, <1>2 DEF NvmRecord
<1>4. envm'.device = envm.device /\ envm'.owner = envm.owner /\ envm'.cr = "design"
  BY <1>1, <1>2 DEF EnvmRecord
<1>5. NvmTypes'
  <2>1. nvm' \in NvmRecord
    <3>1. status \in Statuses
      BY <1>2 DEF NvmRecord, Statuses
    <3> QED BY <1>1, <1>2, <3>1 DEF NvmRecord, Places
  <2>2. envm' \in EnvmRecord
    BY <1>1, <1>2 DEF EnvmRecord
  <2> QED BY <1>1, <1>2, <2>1, <2>2 DEF NvmTypes
<1>6. Access'
  BY <1>1, <1>2, <1>3, <1>4 DEF Access
<1>7. Checked' /\ Asking' /\ Progress'
  BY <1>3 DEF Checked, Asking, Progress
<1>8. Done'
  <2>1. PagesAsked' = PagesAsked
    BY <1>3 DEF PagesAsked
  <2>2. status \in Good \cup {"PAGE_LOCK_WARNING"} => nvm.status \in Good \cup {"PAGE_LOCK_WARNING"}
    BY DEF Good
  <2> QED BY <1>1, <1>2, <1>3, <2>1, <2>2 DEF Done
<1>9. Locking'
  <2>1. status = "SUCCESS" => ~nvm.warning
    OBVIOUS
  <2> QED BY <1>2, <1>3, <1>4, <2>1 DEF Locking
<1> QED BY <1>5, <1>6, <1>7, <1>8, <1>9 DEF NvmInv

LEMMA ReturnedInv == ASSUME NvmInv, nvm_returned PROVE NvmInv'
<1>1. nvm.at = "returned" /\ nvm' = Resting /\ envm' = envm /\ nvmDone' = nvmDone
  BY DEF nvm_returned
<1>2. nvm' \in NvmRecord /\ nvm'.at = "free" /\ nvm'.locks = {} /\ ~nvm'.asked
  BY <1>1 DEF Resting, NvmRecord, NvmOps, Places, Statuses
<1>3. NvmTypes'
  BY <1>1, <1>2 DEF NvmInv, NvmTypes
<1>4. Access'
  BY <1>1, <1>2 DEF NvmInv, Access
<1>5. Checked' /\ Asking' /\ Progress' /\ Done' /\ Locking'
  BY <1>2 DEF Checked, Asking, Progress, Done, Locking
<1> QED BY <1>3, <1>4, <1>5 DEF NvmInv

(* Another master takes or gives back a block that the driver has not.     *)
LEMMA OtherInv ==
  ASSUME NvmInv, NEW b \in {0, 1}, NEW owner \in {"none", "other"}, OtherMaster(b, owner)
  PROVE  NvmInv'
<1>1. /\ envm.owner[b] # "m3" /\ envm' = [envm EXCEPT !.owner[b] = owner]
      /\ nvm' = nvm /\ nvmDone' = nvmDone
  BY DEF OtherMaster
<1>2. envm \in EnvmRecord
  BY DEF NvmInv, NvmTypes
<1>3. /\ envm'.device = envm.device /\ envm'.protect = envm.protect /\ envm'.cr = envm.cr
      /\ \A x \in {0, 1} : envm'.owner[x] = IF x = b THEN owner ELSE envm.owner[x]
  BY <1>1, <1>2 DEF EnvmRecord
<1>4. envm' \in EnvmRecord
  BY <1>1, <1>2 DEF EnvmRecord, Owners
<1>5. NvmTypes' /\ Access'
  BY <1>1, <1>3, <1>4 DEF NvmInv, NvmTypes, Access
<1>6. Checked' /\ Asking' /\ Progress' /\ Locking'
  BY <1>1, <1>3 DEF NvmInv, Checked, Asking, Progress, Locking
<1>7. Done'
  BY <1>1 DEF NvmInv, Done, Before, PagesAsked
<1> QED BY <1>5, <1>6, <1>7 DEF NvmInv

(* The invariant is inductive.                                             *)
LEMMA StepNvmInv == NvmInv /\ [NvmNext]_nvmVars => NvmInv'
<1> SUFFICES ASSUME NvmInv, [NvmNext]_nvmVars PROVE NvmInv'
  OBVIOUS
<1>1. CASE NvmCalling
  <2>1. (\A offset \in NvmOffsets : offset \in Nat) /\ (\A length \in NvmLengths : length \in Nat)
    <3>1. \A x, k : x \in 0..k => x \in Nat
      OBVIOUS
    <3> QED BY <3>1, NvmAssumption
  <2>2. ASSUME NEW offset \in NvmOffsets, NvmCall("count", offset, 1, FALSE) PROVE NvmInv'
    <3>1. offset \in Nat /\ 1 \in Nat /\ 1 > 0 /\ FALSE \in BOOLEAN
      BY <2>1
    <3>2. "count" \in {"write", "unlock", "count"}
      OBVIOUS
    <3> QED BY <2>2, <3>1, <3>2, NvmCallInv
  <2>3. ASSUME NEW offset \in NvmOffsets, NEW length \in NvmLengths,
               NvmCall("unlock", offset, length, FALSE)
        PROVE  NvmInv'
    BY <2>1, <2>3, NvmCallInv
  <2>4. ASSUME NEW offset \in NvmOffsets, NEW length \in NvmLengths, NEW asked \in BOOLEAN,
               NvmCall("write", offset, length, asked)
        PROVE  NvmInv'
    BY <2>1, <2>4, NvmCallInv
  <2> QED BY <1>1, <2>2, <2>3, <2>4 DEF NvmCalling, NVM_write, NVM_unlock, NVM_read_page_write_count
<1>2. CASE NvmStep
  <2>1. ASSUME NEW b \in {0, 1}, NEW granted \in BOOLEAN, request_nvm_access(b, granted) PROVE NvmInv'
    <3>1. CASE granted = TRUE
      BY <2>1, <3>1, GrantInv
    <3>2. CASE granted = FALSE
      BY <2>1, <3>2, RefuseInv
    <3> QED BY <3>1, <3>2
  <2> QED BY <1>2, <2>1, WriteNvmInv, VerifyInv, UnlockInv, CountInv, ReleaseInv, ReturnInv, ReturnedInv
          DEF NvmStep
<1>3. ASSUME NEW b \in {0, 1}, NEW owner \in {"none", "other"}, OtherMaster(b, owner) PROVE NvmInv'
  BY <1>3, OtherInv
<1>4. CASE UNCHANGED nvmVars
  BY <1>4 DEF nvmVars, NvmInv, NvmTypes, Access, Checked, Asking, Progress, Done, Locking, Before, PagesAsked
<1> QED BY <1>1, <1>2, <1>3, <1>4 DEF NvmNext

----------------------------------------------------------------------------
(* What the caller may count on. *)

LEMMA InvSound == NvmInv => NvmSound
<1> SUFFICES ASSUME NvmInv PROVE ProgramsSafely /\ ReportsTruly
  BY DEF NvmSound
<1>1. nvm \in NvmRecord /\ envm \in EnvmRecord
  BY DEF NvmInv, NvmTypes
<1>2. ASSUME nvm.at \in {"page", "verify"}, nvm.op # "count"
      PROVE  /\ Writable(PageOf(nvm.page))
             /\ envm.owner[BlockOfPage(PageOf(nvm.page))] = "m3"
             /\ \A i \in 0..(BYTES_PER_PAGE - 1) :
                  fill_wd_buffer(nvm.page,
                    get_remaining_page_length(nvm.page, nvm.remaining))[i] # "stale"
  <2>1. /\ nvm.offset \in Nat /\ nvm.length \in Nat \ {0} /\ nvm.page \in Nat
        /\ nvm.remaining \in Nat \ {0} /\ nvm.offset <= nvm.page
        /\ nvm.page < nvm.offset + nvm.length
    BY <1>1, <1>2 DEF NvmRecord, NvmInv, Checked, Progress
  <2>2. Writable(PageOf(nvm.page))
    BY <1>1, <1>2, <2>1, RangeWritable DEF NvmInv, Checked
  <2>3. envm.owner[BlockOfPage(PageOf(nvm.page))] = "m3"
    <3> DEFINE p == PageOf(nvm.page)
               m == nvm.page % BYTES_PER_PAGE
    <3>1. p \in Nat /\ m \in 0..127 /\ nvm.page = (128 * p) + m
      BY <2>1, PageSplit
    <3>2. LastOf(nvm.offset, nvm.length) = nvm.offset + nvm.length - 1
      BY <2>1 DEF LastOf
    <3> HIDE DEF p, m
    <3>3. CASE p >= 2048
      <4>1. LastOf(nvm.offset, nvm.length) >= NVM1_BOTTOM_OFFSET
        BY <2>1, <3>1, <3>2, <3>3, SMT DEF NVM1_BOTTOM_OFFSET
      <4>2. BlockOfPage(p) = 1
        BY <3>3, SMT DEF BlockOfPage, PAGES_PER_BLOCK
      <4> QED BY <1>2, <4>1, <4>2 DEF NvmInv, Asking, Access, p
    <3>4. CASE p < 2048
      <4>1. nvm.offset < NVM1_BOTTOM_OFFSET
        BY <2>1, <3>1, <3>4, SMT DEF NVM1_BOTTOM_OFFSET
      <4>2. BlockOfPage(p) = 0
        BY <3>1, <3>4, SMT DEF BlockOfPage, PAGES_PER_BLOCK
      <4> QED BY <1>2, <4>1, <4>2 DEF NvmInv, Asking, Access, p
    <3> QED BY <3>1, <3>3, <3>4
  <2>4. \A i \in 0..(BYTES_PER_PAGE - 1) :
          fill_wd_buffer(nvm.page, get_remaining_page_length(nvm.page, nvm.remaining))[i] # "stale"
    <3> DEFINE n == get_remaining_page_length(nvm.page, nvm.remaining)
    <3>1. n \in Nat \ {0} /\ (nvm.page % BYTES_PER_PAGE) + n <= 128
      BY <2>1, RemainingLength
    <3> HIDE DEF n
    <3>2. \A i \in 0..(BYTES_PER_PAGE - 1) : fill_wd_buffer(nvm.page, n)[i] # "stale"
      BY <2>1, <3>1, BufferFilled
    <3> QED BY <3>2 DEF n
  <2> QED BY <2>2, <2>3, <2>4
<1>3. ASSUME nvm.at = "returned"
      PROVE  /\ nvm.status \in {"SUCCESS", "PAGE_LOCK_WARNING", "WRITE_THRESHOLD_WARNING"} =>
                  /\ nvm.op = "write"  => /\ nvmDone.verified = PagesAsked
                                          /\ nvmDone.programmed = PagesAsked
                  /\ nvm.op = "unlock" => nvmDone.unlocked = PagesAsked
             /\ nvm.status = "SUCCESS" /\ nvm.asked /\ envm.device # "010" =>
                  nvmDone.locked = PagesAsked
             /\ "m3" \notin {envm.owner[0], envm.owner[1]} /\ envm.cr = "design"
  <2>1. nvm.status \in {"SUCCESS", "PAGE_LOCK_WARNING", "WRITE_THRESHOLD_WARNING"} =>
          /\ nvm.op = "write"  => /\ nvmDone.verified = PagesAsked
                                  /\ nvmDone.programmed = PagesAsked
          /\ nvm.op = "unlock" => nvmDone.unlocked = PagesAsked
    BY <1>3 DEF NvmInv, Done, Good
  <2>2. nvm.status = "SUCCESS" /\ nvm.asked /\ envm.device # "010" => nvmDone.locked = PagesAsked
    BY <1>3 DEF NvmInv, Done, Good, Locking
  <2>3. "m3" \notin {envm.owner[0], envm.owner[1]} /\ envm.cr = "design"
    BY <1>3 DEF NvmInv, Access
  <2> QED BY <2>1, <2>2, <2>3
<1> QED BY <1>2, <1>3 DEF ProgramsSafely, ReportsTruly

(* NVM_write and NVM_unlock program a page only if the design lets the     *)
(* application write it, only with access to its block and only from a     *)
(* filled buffer; success means that every page of the range was written,  *)
(* verified and locked as asked, and the blocks are always given back.     *)
THEOREM NvmSafe == NvmSpec => []NvmSound
<1>1. NvmInit => NvmInv
  BY InitNvmInv
<1>2. NvmInv /\ [NvmNext]_nvmVars => NvmInv'
  BY StepNvmInv
<1>3. NvmInv => NvmSound
  BY InvSound
<1> QED BY <1>1, <1>2, <1>3, PTL DEF NvmSpec

(* ENVM_CR is raised just while a call that may program is under way.      *)
CrRaised == envm.cr = "max" <=> nvm.at \notin {"free", "returned"} /\ nvm.op # "count"

LEMMA CrStarts == NvmInit => CrRaised
BY DEF NvmInit, Resting, CrRaised

LEMMA CrSteps == NvmInv /\ CrRaised /\ [NvmNext]_nvmVars => CrRaised'
<1> SUFFICES ASSUME NvmTypes, Access, CrRaised, [NvmNext]_nvmVars PROVE CrRaised'
  BY DEF NvmInv
<1>0. nvm \in NvmRecord /\ envm \in EnvmRecord
  BY DEF NvmTypes
<1>1. ASSUME NEW op \in {"write", "unlock", "count"}, NEW offset, NEW length, NEW asked,
             NvmCall(op, offset, length, asked)
      PROVE  CrRaised'
  <2>1. /\ nvm'.op = op /\ nvm'.at \in {"return", "request0", "request1"}
        /\ envm' = [envm EXCEPT !.cr = IF op = "count" THEN @ ELSE "max"]
        /\ nvm.at = "free"
    BY <1>1 DEF NvmCall, Resting
  <2>2. envm.cr # "max"
    BY <2>1 DEF CrRaised
  <2>3. envm'.cr = IF op = "count" THEN envm.cr ELSE "max"
    BY <1>0, <2>1 DEF EnvmRecord
  <2> QED BY <2>1, <2>2, <2>3 DEF CrRaised
<1>2. CASE NvmCalling
  BY <1>1, <1>2 DEF NvmCalling, NVM_write, NVM_unlock, NVM_read_page_write_count
<1>3. ASSUME envm'.cr = envm.cr, nvm'.op = nvm.op,
             nvm.at \notin {"free", "returned"}, nvm'.at \notin {"free", "returned"}
      PROVE  CrRaised'
  BY <1>3 DEF CrRaised
<1>4. ASSUME NEW b \in {0, 1}, NEW granted \in BOOLEAN, request_nvm_access(b, granted)
      PROVE  CrRaised'
  BY <1>0, <1>3, <1>4 DEF request_nvm_access, NvmRecord, EnvmRecord
<1>5. ASSUME NEW bits \in Outcomes, write_nvm(bits) \/ verify(bits) \/ unlock_page(bits)
      PROVE  CrRaised'
  BY <1>0, <1>3, <1>5 DEF write_nvm, verify, unlock_page, Advance, NvmRecord
<1>6. CASE read_count \/ nvm_release
  BY <1>0, <1>3, <1>6 DEF read_count, nvm_release, NvmRecord, EnvmRecord
<1>7. CASE nvm_return
  BY <1>0, <1>7 DEF nvm_return, NvmRecord, EnvmRecord, CrRaised
<1>8. CASE nvm_returned
  BY <1>0, <1>8 DEF nvm_returned, Resting, CrRaised
<1>9. ASSUME NEW b \in {0, 1}, NEW owner \in {"none", "other"}, OtherMaster(b, owner) PROVE CrRaised'
  BY <1>0, <1>9 DEF OtherMaster, EnvmRecord, CrRaised
<1>10. CASE UNCHANGED nvmVars
  BY <1>10 DEF nvmVars, CrRaised
<1> QED BY <1>2, <1>4, <1>5, <1>6, <1>7, <1>8, <1>9, <1>10 DEF NvmNext, NvmStep

(* For every device, protection, offset and length: the driver notes just  *)
(* the blocks it holds, and ENVM_CR is raised from the call that may       *)
(* program to its return and at no other time.                             *)
THEOREM NvmAlwaysTyped == NvmSpec => []NvmTypeOK
<1>1. ASSUME NvmInv, CrRaised PROVE NvmTypeOK
  <2>1. nvm \in NvmRecord /\ envm \in EnvmRecord
    BY <1>1 DEF NvmInv, NvmTypes
  <2>2. nvm.locks = {b \in {0, 1} : envm.owner[b] = "m3"}
    BY <1>1, <2>1 DEF NvmInv, Access, NvmRecord
  <2> QED BY <1>1, <2>1, <2>2 DEF NvmTypeOK, CrRaised, NvmRecord, EnvmRecord, Places, Owners
<1> QED BY <1>1, InitNvmInv, StepNvmInv, CrStarts, CrSteps, PTL DEF NvmSpec

----------------------------------------------------------------------------
(* The Micron flash.  What the flash holds once it has settled is what     *)
(* counts: a wait does not change it, nor does the completion of an        *)
(* operation.  The invariant says it for every stage of every function,    *)
(* with whether the flash is known to be idle and write enabled.           *)

Calm    == chip.op = Idle_
Holding(cells) == Settled(chip) = cells
Unchanged == Holding(flashCall.before)

(* A function that sends no command that changes cells.                    *)
Harmless(name) == name \notin {"erase_4k_block", "erase_64k_block", "chip_erase", "program", "read"}

HarmlessWords ==
  {wait_ready, wait_ready_flag, WRITE_ENABLE} \cup [do : {"write_status", "id", "status"}]

OnlyHarmless == Unchanged /\ todo \in Seq(HarmlessWords)

Wiped(unit) == [a \in FlashAddr |-> IF a \in unit THEN ErasedCell ELSE flashCall.before[a]]

Erasing(unit) ==
  \/ /\ Unchanged
     /\ todo \in {<<wait_ready, WRITE_ENABLE, wait_ready_flag, wait_ready, Erase(unit), wait_ready>>,
                  <<wait_ready, WRITE_ENABLE, wait_ready, Erase(unit), wait_ready>>}
  \/ /\ Unchanged /\ Calm
     /\ todo \in {<<WRITE_ENABLE, wait_ready_flag, wait_ready, Erase(unit), wait_ready>>,
                  <<WRITE_ENABLE, wait_ready, Erase(unit), wait_ready>>}
  \/ /\ Unchanged /\ Calm /\ chip.wel
     /\ todo \in {<<wait_ready_flag, wait_ready, Erase(unit), wait_ready>>,
                  <<wait_ready, Erase(unit), wait_ready>>, <<Erase(unit), wait_ready>>}
  \/ Holding(Wiped(unit)) /\ todo = <<wait_ready>>
  \/ Holding(Wiped(unit)) /\ todo = <<>> /\ Calm

Read == [do |-> "read", at |-> flashCall.at, n |-> flashCall.n]

Asked == [i \in 1..flashCall.n |-> flashCall.before[flashCall.at + i - 1]]

ReadOut ==
  /\ Unchanged
  /\ \/ todo = <<wait_ready, Read, wait_ready>>
     \/ todo = <<Read, wait_ready>> /\ Calm
     \/ todo \in {<<wait_ready>>, <<>>} /\ flashCall.given = Asked

(* The first k bytes are in the flash. *)
Part(k) ==
  [a \in FlashAddr |->
    IF a \notin flashCall.at..(flashCall.at + k - 1) THEN flashCall.before[a]
    ELSE IF flashCall.before[a] = ErasedCell THEN a - flashCall.at + 1 ELSE Mixed]

turn == [do |-> "next_page"]

(* i bytes are in the flash and the next page of them is being written.    *)
Writing(i) ==
  LET n == nb_bytes_to_write([target |-> flashCall.at + i, idx |-> i], flashCall.n)
      W == write_cmd_data(flashCall.at + i, i, n)
  IN  /\ i < flashCall.n
      /\ flashLoop = [target |-> flashCall.at + i + n, idx |-> i + n]
      /\ Holding(Part(i))
      /\ \/ todo = <<wait_ready, WRITE_ENABLE, wait_ready, W, turn>>
         \/ todo = <<WRITE_ENABLE, wait_ready, W, turn>> /\ Calm
         \/ todo \in {<<wait_ready, W, turn>>, <<W, turn>>} /\ Calm /\ chip.wel

Programming ==
  \/ \E i \in 0..flashCall.n : Writing(i)
  \/ \E i \in 0..flashCall.n :
       /\ flashLoop = [target |-> flashCall.at + i, idx |-> i]
       /\ Holding(Part(i))
       /\ \/ i = 0 /\ todo \in {<<wait_ready, WRITE_ENABLE, wait_ready, WRITE_ENABLE, turn>>,
                                <<WRITE_ENABLE, wait_ready, WRITE_ENABLE, turn>>,
                                <<wait_ready, WRITE_ENABLE, turn>>, <<WRITE_ENABLE, turn>>}
          \/ todo = <<turn>>
          \/ i = flashCall.n /\ todo \in {<<wait_ready_flag, wait_ready, WRITE_DISABLE>>,
                                          <<wait_ready, WRITE_DISABLE>>}
          \/ i = flashCall.n /\ todo \in {<<WRITE_DISABLE>>, <<>>} /\ Calm

Running ==
  CASE flashCall.name = "erase_4k_block"  -> Erasing(Unit(flashCall.at, BlockCells))
    [] flashCall.name = "erase_64k_block" -> Erasing(Unit(flashCall.at, SectorCells))
    [] flashCall.name = "chip_erase"      -> Erasing(FlashAddr)
    [] flashCall.name = "read"            -> ReadOut
    [] flashCall.name = "program"         -> Programming
    [] OTHER                              -> OnlyHarmless

Chip ==
  /\ chip = [cells |-> chip.cells, op |-> chip.op, wel |-> chip.wel]
  /\ chip.cells = [a \in FlashAddr |-> chip.cells[a]]
  /\ chip.op.do = "nothing" => Calm

Call ==
  /\ flashCall = [name |-> flashCall.name, at |-> flashCall.at, n |-> flashCall.n,
                  before |-> flashCall.before, given |-> flashCall.given, over |-> flashCall.over]
  /\ flashCall.before = [a \in FlashAddr |-> flashCall.before[a]]
  /\ flashCall.at \in Nat /\ flashCall.n \in Nat
  /\ flashCall.over \in BOOLEAN

FlashInv ==
  /\ Chip /\ Call
  /\ todo # <<>> \/ flashCall.over => Running

----------------------------------------------------------------------------
(* A page. *)

LEMMA WithinPage ==
  ASSUME NEW p \in Nat \ {0}, NEW t \in Nat, NEW k \in Nat, (t % p) + k < p
  PROVE  (t + k) % p = (t % p) + k
<1> DEFINE q == t \div p
           r == t % p
<1>1. t = p * q + r /\ q \in Int /\ r \in 0..(p - 1)
  OBVIOUS
<1> HIDE DEF q, r
<1>2. r + k \in 0..(p - 1) /\ t + k = p * q + (r + k)
  <2>1. r + k < p
    BY DEF r
  <2>2. p * q \in Int
    BY <1>1
  <2> QED BY <1>1, <2>1, <2>2
<1>3. \A m \in 0..(p - 1) : (p * q + m) % p = m
  BY <1>1
<1>4. (t + k) % p = r + k
  BY <1>2, <1>3
<1> QED BY <1>4 DEF r

(* What is written at once stays within a page and within the buffer.      *)
LEMMA PageBytes ==
  ASSUME NEW t \in Nat, NEW i \in Nat, NEW size \in Nat, i < size
  PROVE  LET n == nb_bytes_to_write([target |-> t, idx |-> i], size)
         IN  n \in Nat \ {0} /\ i + n <= size /\ (t % PageCells) + n <= PageCells
<1>1. PageCells \in Nat \ {0}
  BY FlashAssumption
<1>2. t % PageCells \in 0..(PageCells - 1)
  BY <1>1
<1> QED BY <1>1, <1>2 DEF nb_bytes_to_write

(* Programming n cells of a page after the first i puts i + n there.       *)
LEMMA PartGrows ==
  ASSUME Call, NEW i \in Nat, i < flashCall.n,
         NEW n, n = nb_bytes_to_write([target |-> flashCall.at + i, idx |-> i], flashCall.n)
  PROVE  Effect(Part(i), write_cmd_data(flashCall.at + i, i, n)) = Part(i + n)
<1>1. PICK at, size, before :
        at = flashCall.at /\ size = flashCall.n /\ before = flashCall.before
  OBVIOUS
<1>2. at \in Nat /\ size \in Nat /\ i < size
  BY <1>1 DEF Call
<1> DEFINE t == at + i
           P == PageCells
           base == t - (t % P)
<1>3. P \in Nat \ {0} /\ t \in Nat
  BY <1>2, FlashAssumption
<1>4. n \in Nat \ {0} /\ (t % P) + n <= P
  BY <1>1, <1>2, <1>3, PageBytes
<1>5. ASSUME NEW k \in 1..n PROVE base + ((t + k - 1) % P) = t + k - 1
  <2>1. k - 1 \in Nat /\ (t % P) \in Nat /\ (t % P) + (k - 1) < P
    BY <1>3, <1>4
  <2>2. (t + (k - 1)) % P = (t % P) + (k - 1)
    BY <1>3, <2>1, WithinPage
  <2>3. t + k - 1 = t + (k - 1)
    BY <1>3
  <2> QED BY <1>3, <2>1, <2>2, <2>3
<1> DEFINE hits(a) == {k \in 1..n : a = base + ((t + k - 1) % P)}
           New(a) == IF hits(a) = {} THEN Part(i)[a]
                     ELSE IF Part(i)[a] = ErasedCell /\ \E k \in hits(a) : hits(a) = {k}
                          THEN i + (CHOOSE k \in hits(a) : TRUE)
                          ELSE Mixed
<1>6. Effect(Part(i), write_cmd_data(flashCall.at + i, i, n)) = [a \in FlashAddr |-> New(a)]
  BY <1>1 DEF Effect, write_cmd_data
<1>7. ASSUME NEW a \in FlashAddr PROVE New(a) = Part(i + n)[a]
  <2>1. hits(a) = {k \in 1..n : a = t + k - 1}
    BY <1>5
  <2>2. a \in Int
    BY FlashAssumption DEF FlashAddr
  <2>3. \A k \in Nat : Part(k)[a] = IF a \notin at..(at + k - 1) THEN before[a]
                                    ELSE IF before[a] = ErasedCell THEN a - at + 1 ELSE Mixed
    BY <1>1 DEF Part
  <2> HIDE DEF hits
  <2>4. CASE a \in t..(t + n - 1)
    <3> DEFINE m == a - t + 1
    <3>1. m \in 1..n /\ hits(a) = {m}
      BY <1>3, <1>4, <2>1, <2>2, <2>4
    <3>2. (CHOOSE k \in hits(a) : TRUE) = m
      BY <3>1
    <3>3. i + m = a - at + 1
      BY <1>2, <2>2
    <3>4. a \notin at..(at + i - 1) /\ a \in at..(at + (i + n) - 1)
      BY <1>2, <1>4, <2>2, <2>4
    <3>5. Part(i)[a] = before[a]
      BY <2>3, <3>4
    <3>6. Part(i + n)[a] = IF before[a] = ErasedCell THEN a - at + 1 ELSE Mixed
      BY <1>4, <2>3, <3>4
    <3>7. hits(a) # {} /\ \E k \in hits(a) : hits(a) = {k}
      BY <3>1
    <3> HIDE DEF m
    <3> QED BY <3>2, <3>3, <3>5, <3>6, <3>7
  <2>5. CASE a \notin t..(t + n - 1)
    <3>1. hits(a) = {}
      BY <1>3, <1>4, <2>1, <2>2, <2>5
    <3>2. a \in at..(at + i - 1) <=> a \in at..(at + (i + n) - 1)
      BY <1>2, <1>4, <2>2, <2>5
    <3>3. Part(i)[a] = Part(i + n)[a]
      BY <1>4, <2>3, <3>2
    <3> QED BY <3>1, <3>3
  <2> QED BY <2>4, <2>5
<1>8. Part(i + n) = [a \in FlashAddr |-> Part(i + n)[a]]
  BY DEF Part
<1> QED BY <1>6, <1>7, <1>8

----------------------------------------------------------------------------
(* What one step does. *)

SameCall ==
  /\ flashCall'.name = flashCall.name /\ flashCall'.at = flashCall.at
  /\ flashCall'.n = flashCall.n /\ flashCall'.before = flashCall.before

LEMMA StepCall ==
  ASSUME Call, flash_step
  PROVE  /\ SameCall /\ Call'
         /\ flashCall'.given = IF Head(todo).do \in {"status", "read", "id"}
                               THEN Given(chip, Head(todo)) ELSE flashCall.given
BY DEF Call, flash_step, SameCall

LEMMA StepTodo ==
  ASSUME flash_step
  PROVE  /\ todo # <<>>
         /\ Head(todo).do # "next_page" => todo' = Tail(todo) /\ flashLoop' = flashLoop
         /\ Head(todo).do = "next_page" =>
              /\ todo' = next_page(flashLoop, flashCall.n).todo
              /\ flashLoop' = next_page(flashLoop, flashCall.n).loop
BY DEF flash_step

(* A flash that is busy hears nothing; only two commands change cells.     *)
LEMMA StepChip ==
  ASSUME Chip, flash_step
  PROVE  /\ Chip'
         /\ Head(todo).do \in {"wait_ready", "wait_ready_flag", "next_page", "read", "id", "status"}
              => chip' = chip
         /\ Head(todo).do = "wait_ready" => Calm
         /\ Head(todo).do \in {"write_enable", "write_disable"} =>
              chip'.cells = chip.cells /\ chip'.op = chip.op
         /\ Head(todo).do = "write_enable" /\ Calm => chip'.wel
         /\ Head(todo).do = "write_status" =>
              chip'.cells = chip.cells /\ (chip'.op = chip.op \/ (Calm /\ chip'.op = Head(todo)))
         /\ Head(todo).do \in {"erase", "program"} /\ Calm /\ chip.wel =>
              chip'.cells = chip.cells /\ chip'.op = Head(todo)
<1> DEFINE h == Head(todo)
<1>1. chip' = Received(chip, h) /\ (h.do = "wait_ready" => chip.op.do = "nothing")
  BY DEF flash_step
<1>2. chip.op.do = "nothing" <=> Calm
  BY DEF Chip, Calm, Idle_
<1> HIDE DEF h
<1>3. /\ h.do \in {"wait_ready", "wait_ready_flag", "next_page", "read", "id", "status"} => chip' = chip
      /\ h.do \in {"write_enable", "write_disable"} => chip'.cells = chip.cells /\ chip'.op = chip.op
      /\ h.do = "write_enable" /\ Calm => chip'.wel
  BY <1>1, <1>2 DEF Received, Chip
<1>4. /\ h.do = "write_status" =>
           chip'.cells = chip.cells /\ (chip'.op = chip.op \/ (Calm /\ chip'.op = h))
      /\ h.do \in {"erase", "program"} /\ Calm /\ chip.wel => chip'.cells = chip.cells /\ chip'.op = h
  BY <1>1, <1>2 DEF Received, Chip
<1>5. Chip'
  <2>1. chip'.op = chip.op \/ (chip'.op = h /\ h.do # "nothing")
    BY <1>1 DEF Received, Chip
  <2>2. chip' = [cells |-> chip'.cells, op |-> chip'.op, wel |-> chip'.wel] /\ chip'.cells = chip.cells
    BY <1>1 DEF Received, Chip
  <2> QED BY <2>1, <2>2 DEF Chip, Calm
<1> QED BY <1>1, <1>2, <1>3, <1>4, <1>5 DEF h

(* What the flash holds once settled.                                      *)
LEMMA StepSettled ==
  ASSUME Chip, flash_step, Head(todo).do \notin {"erase", "program"}
  PROVE  Settled(chip)' = Settled(chip)
<1>1. chip'.cells = chip.cells
  BY DEF flash_step, Received, Chip
<1>2. chip'.op = chip.op \/ (Calm /\ chip'.op.do = "write_status")
  BY DEF flash_step, Received, Chip, Calm, Idle_
<1>3. CASE chip'.op = chip.op
  BY <1>1, <1>3 DEF Settled
<1>4. CASE Calm /\ chip'.op.do = "write_status"
  BY <1>1, <1>4 DEF Settled, Effect, Calm, Idle_
<1> QED BY <1>2, <1>3, <1>4

LEMMA CalmSettled ==
  ASSUME Calm
  PROVE  Settled(chip) = chip.cells
BY DEF Calm, Settled, Effect, Idle_

LEMMA SettledCells ==
  ASSUME Chip
  PROVE  Settled(chip) = [a \in FlashAddr |-> Settled(chip)[a]]
<1>1. CASE chip.op.do = "erase"
  BY <1>1 DEF Settled, Effect
<1>2. CASE chip.op.do = "program"
  <2> DEFINE base == chip.op.to - (chip.op.to % PageCells)
             hits(a) == {i \in 1..chip.op.n : a = base + ((chip.op.to + i - 1) % PageCells)}
             New(a) == IF hits(a) = {} THEN chip.cells[a]
                       ELSE IF chip.cells[a] = ErasedCell /\ \E i \in hits(a) : hits(a) = {i}
                            THEN chip.op.from + (CHOOSE i \in hits(a) : TRUE)
                            ELSE Mixed
  <2>1. Settled(chip) = [a \in FlashAddr |-> New(a)]
    BY <1>2 DEF Settled, Effect
  <2> HIDE DEF New
  <2> QED BY <2>1
<1>3. CASE chip.op.do \notin {"erase", "program"}
  BY <1>3 DEF Settled, Effect, Chip
<1> QED BY <1>1, <1>2, <1>3

LEMMA CompleteSettled ==
  ASSUME Chip, complete
  PROVE  Chip' /\ ~Calm /\ Settled(chip)' = Settled(chip)
<1>1. chip' = [cells |-> Settled(chip), op |-> Idle_, wel |-> FALSE] /\ ~Calm
  BY DEF complete, Calm, Idle_
<1>2. Settled(chip) = [a \in FlashAddr |-> Settled(chip)[a]]
  BY SettledCells
<1>3. Settled(chip)' = chip'.cells
  BY <1>1 DEF Settled, Effect, Idle_
<1>4. chip'.cells = Settled(chip) /\ chip'.op = Idle_
  BY <1>1
<1> QED BY <1>1, <1>2, <1>3, <1>4 DEF Chip, Calm

LEMMA Still ==
  ASSUME SameCall, Settled(chip)' = Settled(chip)
  PROVE  /\ Unchanged' <=> Unchanged
         /\ \A unit : Holding(Wiped(unit))' <=> Holding(Wiped(unit))
         /\ \A k : Holding(Part(k))' <=> Holding(Part(k))
         /\ Read' = Read /\ Asked' = Asked
BY DEF SameCall, Unchanged, Holding, Wiped, Part, Read, Asked

LEMMA Tuples ==
  /\ \A a : Head(<<a>>) = a /\ Tail(<<a>>) = <<>>
  /\ \A a, b : Head(<<a, b>>) = a /\ Tail(<<a, b>>) = <<b>>
  /\ \A a, b, c : Head(<<a, b, c>>) = a /\ Tail(<<a, b, c>>) = <<b, c>>
  /\ \A a, b, c, d : Head(<<a, b, c, d>>) = a /\ Tail(<<a, b, c, d>>) = <<b, c, d>>
  /\ \A a, b, c, d, e : Head(<<a, b, c, d, e>>) = a /\ Tail(<<a, b, c, d, e>>) = <<b, c, d, e>>
  /\ \A a, b, c, d, e, f :
       Head(<<a, b, c, d, e, f>>) = a /\ Tail(<<a, b, c, d, e, f>>) = <<b, c, d, e, f>>
OBVIOUS

LEMMA WordsDo ==
  /\ wait_ready.do = "wait_ready" /\ wait_ready_flag.do = "wait_ready_flag"
  /\ WRITE_ENABLE.do = "write_enable" /\ WRITE_DISABLE.do = "write_disable"
  /\ turn.do = "next_page" /\ Read.do = "read"
  /\ \A unit : Erase(unit).do = "erase"
  /\ \A to, from, n : write_cmd_data(to, from, n).do = "program"
BY DEF wait_ready, wait_ready_flag, WRITE_ENABLE, WRITE_DISABLE, turn, Read, Erase, write_cmd_data

(* An accepted erase.                                                      *)
LEMMA Erases ==
  ASSUME NEW unit, Chip, Call, flash_step, Head(todo) = Erase(unit), Unchanged, Calm, chip.wel
  PROVE  Holding(Wiped(unit))'
<1>1. chip'.cells = chip.cells /\ chip'.op = Erase(unit)
  BY StepChip, WordsDo
<1>2. chip.cells = flashCall.before
  BY CalmSettled DEF Unchanged, Holding
<1>3. flashCall'.before = flashCall.before
  BY StepCall DEF SameCall
<1>4. Settled(chip)' = [a \in FlashAddr |-> IF a \in unit THEN ErasedCell ELSE flashCall.before[a]]
  BY <1>1, <1>2 DEF Settled, Effect, Erase
<1> QED BY <1>3, <1>4 DEF Holding, Wiped

LEMMA EraseStep ==
  ASSUME NEW unit, Chip, Call, Erasing(unit), flash_step
  PROVE  Erasing(unit)'
<1> DEFINE h == Head(todo)
<1>1. /\ SameCall /\ todo # <<>>
      /\ h.do # "next_page" => todo' = Tail(todo)
      /\ h.do \in {"wait_ready", "wait_ready_flag"} => chip' = chip
      /\ h.do = "wait_ready" => Calm
      /\ h.do = "write_enable" /\ Calm => chip'.wel /\ chip'.op = chip.op
      /\ h.do \notin {"erase", "program"} => Settled(chip)' = Settled(chip)
  BY StepCall, StepTodo, StepChip, StepSettled
<1>2. CASE /\ Unchanged
           /\ todo \in {<<wait_ready, WRITE_ENABLE, wait_ready_flag, wait_ready, Erase(unit), wait_ready>>,
                        <<wait_ready, WRITE_ENABLE, wait_ready, Erase(unit), wait_ready>>}
  <2>1. /\ h.do = "wait_ready"
        /\ Tail(todo) \in {<<WRITE_ENABLE, wait_ready_flag, wait_ready, Erase(unit), wait_ready>>,
                           <<WRITE_ENABLE, wait_ready, Erase(unit), wait_ready>>}
    <3>1. CASE todo = <<wait_ready, WRITE_ENABLE, wait_ready_flag, wait_ready, Erase(unit), wait_ready>>
      BY <3>1, WordsDo, Tuples
    <3>2. CASE todo = <<wait_ready, WRITE_ENABLE, wait_ready, Erase(unit), wait_ready>>
      BY <3>2, WordsDo, Tuples
    <3> QED BY <1>2, <3>1, <3>2
  <2>2. Unchanged' /\ Calm'
    BY <1>1, <1>2, <2>1, Still DEF Calm
  <2> QED BY <1>1, <2>1, <2>2 DEF Erasing, wait_ready, WRITE_ENABLE, wait_ready_flag, Erase
<1>3. CASE /\ Unchanged /\ Calm
           /\ todo \in {<<WRITE_ENABLE, wait_ready_flag, wait_ready, Erase(unit), wait_ready>>,
                        <<WRITE_ENABLE, wait_ready, Erase(unit), wait_ready>>}
  <2>1. /\ h.do = "write_enable"
        /\ Tail(todo) \in {<<wait_ready_flag, wait_ready, Erase(unit), wait_ready>>,
                           <<wait_ready, Erase(unit), wait_ready>>}
    <3>1. CASE todo = <<WRITE_ENABLE, wait_ready_flag, wait_ready, Erase(unit), wait_ready>>
      BY <3>1, WordsDo, Tuples
    <3>2. CASE todo = <<WRITE_ENABLE, wait_ready, Erase(unit), wait_ready>>
      BY <3>2, WordsDo, Tuples
    <3> QED BY <1>3, <3>1, <3>2
  <2>2. Unchanged' /\ Calm' /\ chip'.wel
    BY <1>1, <1>3, <2>1, Still DEF Calm
  <2> QED BY <1>1, <2>1, <2>2 DEF Erasing
<1>4. CASE /\ Unchanged /\ Calm /\ chip.wel
           /\ todo \in {<<wait_ready_flag, wait_ready, Erase(unit), wait_ready>>,
                        <<wait_ready, Erase(unit), wait_ready>>}
  <2>1. /\ h.do \in {"wait_ready", "wait_ready_flag"}
        /\ Tail(todo) \in {<<wait_ready, Erase(unit), wait_ready>>, <<Erase(unit), wait_ready>>}
    <3>1. CASE todo = <<wait_ready_flag, wait_ready, Erase(unit), wait_ready>>
      BY <3>1, WordsDo, Tuples
    <3>2. CASE todo = <<wait_ready, Erase(unit), wait_ready>>
      BY <3>2, WordsDo, Tuples
    <3> QED BY <1>4, <3>1, <3>2
  <2>2. Unchanged' /\ Calm' /\ chip'.wel
    BY <1>1, <1>4, <2>1, Still DEF Calm
  <2> QED BY <1>1, <2>1, <2>2 DEF Erasing
<1>5. CASE Unchanged /\ Calm /\ chip.wel /\ todo = <<Erase(unit), wait_ready>>
  <2>1. h = Erase(unit) /\ Tail(todo) = <<wait_ready>>
    BY <1>5, Tuples
  <2>2. Holding(Wiped(unit))' /\ todo' = <<wait_ready>>
    BY <1>1, <1>5, <2>1, Erases, WordsDo
  <2> QED BY <2>2 DEF Erasing
<1>6. CASE Holding(Wiped(unit)) /\ todo = <<wait_ready>>
  <2>1. h.do = "wait_ready" /\ Tail(todo) = <<>>
    BY <1>6, WordsDo, Tuples
  <2>2. Holding(Wiped(unit))' /\ Calm'
    BY <1>1, <1>6, <2>1, Still DEF Calm
  <2> QED BY <1>1, <2>1, <2>2 DEF Erasing
<1> QED BY <1>1, <1>2, <1>3, <1>4, <1>5, <1>6 DEF Erasing

LEMMA ReadStep ==
  ASSUME Chip, Call, ReadOut, flash_step
  PROVE  ReadOut'
<1> DEFINE h == Head(todo)
<1>1. /\ SameCall /\ todo # <<>>
      /\ h.do # "next_page" => todo' = Tail(todo)
      /\ h.do \in {"wait_ready", "read"} => chip' = chip
      /\ h.do = "wait_ready" => Calm
      /\ h.do \notin {"erase", "program"} => Settled(chip)' = Settled(chip)
      /\ flashCall'.given = IF h.do \in {"status", "read", "id"}
                            THEN Given(chip, h) ELSE flashCall.given
  BY StepCall, StepTodo, StepChip, StepSettled
<1>2. CASE todo = <<wait_ready, Read, wait_ready>>
  <2>1. h.do = "wait_ready" /\ Tail(todo) = <<Read, wait_ready>>
    BY <1>2, WordsDo, Tuples
  <2>2. Unchanged' /\ Calm' /\ Read' = Read
    BY <1>1, <2>1, Still DEF Calm, ReadOut
  <2>3. <<Read, wait_ready>>' = <<Read, wait_ready>>
    BY <2>2
  <2> QED BY <1>1, <2>1, <2>2, <2>3 DEF ReadOut
<1>3. CASE todo = <<Read, wait_ready>> /\ Calm
  <2>1. h = Read /\ Tail(todo) = <<wait_ready>> /\ h.do = "read"
    BY <1>3, WordsDo, Tuples
  <2>2. Unchanged' /\ Asked' = Asked
    BY <1>1, <2>1, Still DEF ReadOut
  <2>3. chip.cells = flashCall.before
    BY <1>3, CalmSettled DEF ReadOut, Unchanged, Holding
  <2>4. Given(chip, Read) = Asked
    BY <1>3, <2>3 DEF Given, Read, Asked, Calm, Idle_
  <2> QED BY <1>1, <2>1, <2>2, <2>4 DEF ReadOut
<1>4. CASE todo \in {<<wait_ready>>, <<>>} /\ flashCall.given = Asked
  <2>1. h.do = "wait_ready" /\ Tail(todo) = <<>>
    BY <1>1, <1>4, WordsDo, Tuples
  <2>2. Unchanged' /\ Asked' = Asked
    BY <1>1, <2>1, Still DEF ReadOut
  <2> QED BY <1>1, <1>4, <2>1, <2>2 DEF ReadOut
<1> QED BY <1>2, <1>3, <1>4 DEF ReadOut

LEMMA HarmlessStep ==
  ASSUME Chip, Call, OnlyHarmless, flash_step
  PROVE  OnlyHarmless'
<1> DEFINE h == Head(todo)
<1>1. SameCall /\ todo # <<>> /\ (h.do # "next_page" => todo' = Tail(todo))
  BY StepCall, StepTodo
<1>2. h \in HarmlessWords /\ Tail(todo) \in Seq(HarmlessWords)
  BY <1>1 DEF OnlyHarmless
<1>3. h.do \notin {"erase", "program", "next_page"}
  BY <1>2, WordsDo DEF HarmlessWords
<1>4. Unchanged'
  BY <1>1, <1>3, StepSettled, Still DEF OnlyHarmless
<1> QED BY <1>1, <1>2, <1>3, <1>4 DEF OnlyHarmless

(* Programming. *)

LEMMA WritingStep ==
  ASSUME Chip, Call, NEW i \in 0..flashCall.n, Writing(i), flash_step
  PROVE  Programming'
<1> DEFINE h == Head(todo)
<1>1. PICK at, n, m :
        /\ at = flashCall.at /\ n = flashCall.n
        /\ m = nb_bytes_to_write([target |-> at + i, idx |-> i], n)
  OBVIOUS
<1> DEFINE W == write_cmd_data(at + i, i, m)
<1>2. /\ at \in Nat /\ n \in Nat /\ i \in 0..n /\ i < n
      /\ flashLoop = [target |-> at + i + m, idx |-> i + m]
      /\ Holding(Part(i))
      /\ \/ todo = <<wait_ready, WRITE_ENABLE, wait_ready, W, turn>>
         \/ todo = <<WRITE_ENABLE, wait_ready, W, turn>> /\ Calm
         \/ todo \in {<<wait_ready, W, turn>>, <<W, turn>>} /\ Calm /\ chip.wel
  BY <1>1 DEF Writing, Call
<1>3. /\ SameCall /\ todo # <<>>
      /\ h.do # "next_page" => todo' = Tail(todo) /\ flashLoop' = flashLoop
      /\ h.do = "wait_ready" => Calm /\ chip' = chip
      /\ h.do = "write_enable" /\ Calm => chip'.wel /\ chip'.op = chip.op
      /\ h.do \notin {"erase", "program"} => Settled(chip)' = Settled(chip)
  BY StepCall, StepTodo, StepChip, StepSettled
<1>4. flashCall'.at = at /\ flashCall'.n = n
  BY <1>1, <1>3 DEF SameCall
<1>5. ASSUME Holding(Part(i))', flashLoop' = flashLoop,
             \/ todo' = <<WRITE_ENABLE, wait_ready, W, turn>> /\ Calm'
             \/ todo' \in {<<wait_ready, W, turn>>, <<W, turn>>} /\ Calm' /\ chip'.wel
      PROVE  Programming'
  <2>1. Writing(i)'
    BY <1>1, <1>2, <1>4, <1>5 DEF Writing
  <2>2. i \in 0..flashCall'.n
    BY <1>2, <1>4
  <2> QED BY <2>1, <2>2 DEF Programming
<1>6. W.do = "program"
  BY WordsDo
<1> HIDE DEF W
<1>7. CASE todo = <<wait_ready, WRITE_ENABLE, wait_ready, W, turn>>
  <2>1. h.do = "wait_ready" /\ Tail(todo) = <<WRITE_ENABLE, wait_ready, W, turn>>
    BY <1>7, WordsDo, Tuples
  <2>2. Holding(Part(i))' /\ Calm'
    BY <1>2, <1>3, <2>1, Still DEF Calm
  <2> QED BY <1>3, <1>5, <2>1, <2>2
<1>8. CASE todo = <<WRITE_ENABLE, wait_ready, W, turn>> /\ Calm
  <2>1. h.do = "write_enable" /\ Tail(todo) = <<wait_ready, W, turn>>
    BY <1>8, WordsDo, Tuples
  <2>2. Holding(Part(i))' /\ Calm' /\ chip'.wel
    BY <1>2, <1>3, <1>8, <2>1, Still DEF Calm
  <2> QED BY <1>3, <1>5, <2>1, <2>2
<1>9. CASE todo = <<wait_ready, W, turn>> /\ Calm /\ chip.wel
  <2>1. h.do = "wait_ready" /\ Tail(todo) = <<W, turn>>
    BY <1>9, WordsDo, Tuples
  <2>2. Holding(Part(i))' /\ Calm' /\ chip'.wel
    BY <1>2, <1>3, <1>9, <2>1, Still DEF Calm
  <2> QED BY <1>3, <1>5, <2>1, <2>2
<1>10. CASE todo = <<W, turn>> /\ Calm /\ chip.wel
  <2>1. h = W /\ Tail(todo) = <<turn>>
    BY <1>10, Tuples
  <2>2. chip'.cells = chip.cells /\ chip'.op = W
    BY <1>6, <1>10, <2>1, StepChip
  <2>3. chip.cells = Part(i)
    BY <1>2, <1>10, CalmSettled DEF Holding
  <2>4. Effect(Part(i), W) = Part(i + m)
    BY <1>1, <1>2, PartGrows DEF W
  <2>5. Part(i + m)' = Part(i + m)
    BY <1>3 DEF SameCall, Part
  <2>6. Holding(Part(i + m))'
    BY <2>2, <2>3, <2>4, <2>5 DEF Holding, Settled
  <2>7. i + m \in 0..n /\ at + i + m = at + (i + m)
    <3>1. m \in Nat \ {0} /\ i + m <= n
      BY <1>1, <1>2, PageBytes
    <3> QED BY <1>2, <3>1
  <2>8. todo' = <<turn>> /\ flashLoop' = [target |-> at + (i + m), idx |-> i + m]
    BY <1>2, <1>3, <1>6, <2>1, <2>7
  <2> QED BY <1>4, <2>6, <2>7, <2>8 DEF Programming
<1> QED BY <1>2, <1>7, <1>8, <1>9, <1>10

LEMMA ProgramStep ==
  ASSUME Chip, Call, NEW i \in 0..flashCall.n,
         flashLoop = [target |-> flashCall.at + i, idx |-> i], Holding(Part(i)), flash_step,
         \/ i = 0 /\ todo \in {<<wait_ready, WRITE_ENABLE, wait_ready, WRITE_ENABLE, turn>>,
                               <<WRITE_ENABLE, wait_ready, WRITE_ENABLE, turn>>,
                               <<wait_ready, WRITE_ENABLE, turn>>, <<WRITE_ENABLE, turn>>}
         \/ todo = <<turn>>
         \/ i = flashCall.n /\ todo \in {<<wait_ready_flag, wait_ready, WRITE_DISABLE>>,
                                         <<wait_ready, WRITE_DISABLE>>}
         \/ i = flashCall.n /\ todo \in {<<WRITE_DISABLE>>, <<>>} /\ Calm
  PROVE  Programming'
<1> DEFINE h == Head(todo)
<1>1. PICK at, n : at = flashCall.at /\ n = flashCall.n
  OBVIOUS
<1>2. at \in Nat /\ n \in Nat /\ i \in 0..n /\ flashLoop = [target |-> at + i, idx |-> i]
  BY <1>1 DEF Call
<1>3. /\ SameCall /\ todo # <<>>
      /\ h.do # "next_page" => todo' = Tail(todo) /\ flashLoop' = flashLoop
      /\ h.do = "next_page" => todo' = next_page(flashLoop, n).todo
                            /\ flashLoop' = next_page(flashLoop, n).loop
      /\ h.do = "wait_ready" => Calm /\ chip' = chip
      /\ h.do = "write_disable" => chip'.op = chip.op
      /\ h.do \notin {"erase", "program"} => Settled(chip)' = Settled(chip)
  BY <1>1, StepCall, StepTodo, StepChip, StepSettled
<1>4. flashCall'.at = at /\ flashCall'.n = n
  BY <1>1, <1>3 DEF SameCall
<1>5. ASSUME Holding(Part(i))', flashLoop' = flashLoop,
             \/ i = 0 /\ todo' \in {<<WRITE_ENABLE, wait_ready, WRITE_ENABLE, turn>>,
                                    <<wait_ready, WRITE_ENABLE, turn>>, <<WRITE_ENABLE, turn>>}
             \/ todo' = <<turn>>
             \/ i = n /\ todo' \in {<<wait_ready_flag, wait_ready, WRITE_DISABLE>>,
                                    <<wait_ready, WRITE_DISABLE>>}
             \/ i = n /\ todo' \in {<<WRITE_DISABLE>>, <<>>} /\ Calm'
      PROVE  Programming'
  BY <1>2, <1>4, <1>5 DEF Programming
<1>6. CASE h.do \in {"wait_ready", "write_enable", "wait_ready_flag", "write_disable"}
  <2>1. Holding(Part(i))' /\ flashLoop' = flashLoop /\ todo' = Tail(todo)
    BY <1>3, <1>6, Still
  <2>2. CASE todo = <<wait_ready, WRITE_ENABLE, wait_ready, WRITE_ENABLE, turn>> /\ i = 0
    BY <1>5, <2>1, <2>2, Tuples
  <2>3. CASE todo = <<WRITE_ENABLE, wait_ready, WRITE_ENABLE, turn>> /\ i = 0
    BY <1>5, <2>1, <2>3, Tuples
  <2>4. CASE todo = <<wait_ready, WRITE_ENABLE, turn>> /\ i = 0
    BY <1>5, <2>1, <2>4, Tuples
  <2>5. CASE todo = <<WRITE_ENABLE, turn>>
    BY <1>5, <2>1, <2>5, Tuples
  <2>6. CASE todo = <<wait_ready_flag, wait_ready, WRITE_DISABLE>> /\ i = n
    BY <1>5, <2>1, <2>6, Tuples
  <2>7. CASE todo = <<wait_ready, WRITE_DISABLE>> /\ i = n
    <3>1. h.do = "wait_ready" /\ Tail(todo) = <<WRITE_DISABLE>>
      BY <2>7, Tuples, WordsDo
    <3>2. Calm'
      BY <1>3, <3>1 DEF Calm
    <3> QED BY <1>5, <2>1, <2>7, <3>1, <3>2
  <2>8. CASE todo = <<WRITE_DISABLE>> /\ i = n /\ Calm
    <3>1. h.do = "write_disable" /\ Tail(todo) = <<>>
      BY <2>8, Tuples, WordsDo
    <3>2. Calm'
      BY <1>3, <2>8, <3>1 DEF Calm
    <3> QED BY <1>5, <2>1, <2>8, <3>1, <3>2
  <2>9. todo # <<turn>>
    BY <1>6, Tuples, WordsDo
  <2> QED BY <1>1, <1>3, <2>2, <2>3, <2>4, <2>5, <2>6, <2>7, <2>8, <2>9
<1>7. CASE todo = <<turn>>
  <2>1. h.do = "next_page"
    BY <1>7, Tuples, WordsDo
  <2>2. Holding(Part(i))'
    BY <1>3, <2>1, Still
  <2>3. CASE i < n
    <3> DEFINE m == nb_bytes_to_write([target |-> at + i, idx |-> i], n)
    <3>1. /\ todo' = <<wait_ready, WRITE_ENABLE, wait_ready, write_cmd_data(at + i, i, m), turn>>
          /\ flashLoop' = [target |-> at + i + m, idx |-> i + m]
      BY <1>2, <1>3, <2>1, <2>3 DEF next_page, turn
    <3>2. Writing(i)'
      BY <1>4, <2>2, <2>3, <3>1 DEF Writing
    <3> QED BY <1>2, <1>4, <3>2 DEF Programming
  <2>4. CASE i = n
    <3>1. todo' = <<wait_ready_flag, wait_ready, WRITE_DISABLE>> /\ flashLoop' = flashLoop
      BY <1>2, <1>3, <2>1, <2>4 DEF next_page
    <3> QED BY <1>5, <2>2, <2>4, <3>1
  <2> QED BY <1>2, <2>3, <2>4
<1>8. \/ h.do \in {"wait_ready", "write_enable", "wait_ready_flag", "write_disable"}
      \/ todo = <<turn>>
  BY <1>3, Tuples, WordsDo
<1> QED BY <1>6, <1>7, <1>8

----------------------------------------------------------------------------
(* The invariant. *)

LEMMA InitFlashInv == FlashInit => FlashInv
<1> SUFFICES ASSUME FlashInit PROVE FlashInv
  OBVIOUS
<1>1. Chip
  BY DEF FlashInit, Chip, Calm
<1>2. Call
  BY DEF FlashInit, Call
<1>3. todo = <<>> /\ ~flashCall.over
  BY DEF FlashInit
<1> QED BY <1>1, <1>2, <1>3 DEF FlashInv

(* A function that starts finds the flash as an earlier one, or a restart, *)
(* left it.                                                                *)
LEMMA Started ==
  ASSUME Chip, NEW name, NEW a \in Nat, NEW n \in Nat, NEW steps, FlashStart(name, a, n, steps)
  PROVE  /\ Chip' /\ Call' /\ Unchanged' /\ Holding(Part(0))'
         /\ flashCall'.name = name /\ flashCall'.at = a /\ flashCall'.n = n
         /\ todo' = steps /\ flashLoop' = [target |-> a, idx |-> 0]
<1>1. /\ todo' = steps /\ flashLoop' = [target |-> a, idx |-> 0] /\ chip' = chip
      /\ flashCall' = [name |-> name, at |-> a, n |-> n, before |-> Settled(chip),
                       given |-> <<>>, over |-> FALSE]
  BY DEF FlashStart
<1>2. Chip'
  BY <1>1 DEF Chip, Calm
<1>3. PICK cells : cells = Settled(chip)
  OBVIOUS
<1>4. cells = [b \in FlashAddr |-> cells[b]]
  BY <1>3, SettledCells
<1>5. flashCall'.before = cells /\ flashCall'.at = a /\ flashCall'.n = n /\ flashCall'.name = name
  BY <1>1, <1>3
<1>6. Call'
  BY <1>1, <1>3, <1>4 DEF Call
<1>7. Settled(chip)' = cells
  BY <1>1, <1>3 DEF Settled
<1>8. Part(0)' = cells
  <2>1. \A b \in FlashAddr : b \notin a..(a + 0 - 1)
    OBVIOUS
  <2>2. Part(0)' = [b \in FlashAddr |-> cells[b]]
    BY <1>5, <2>1 DEF Part
  <2> QED BY <1>4, <2>2
<1> QED BY <1>1, <1>2, <1>5, <1>6, <1>7, <1>8 DEF Unchanged, Holding

LEMMA FlashCallInv ==
  ASSUME FlashInv, flash_call
  PROVE  FlashInv'
<1>1. Chip /\ FlashAddr \subseteq Nat /\ 0 \in Nat
  BY FlashAssumption DEF FlashInv, FlashAddr
<1>2. ASSUME NEW name \in {"read_device_id", "get_status", "global_unprotect"}, NEW steps,
             FlashStart(name, 0, 0, steps), steps \in Seq(HarmlessWords)
      PROVE  FlashInv'
  <2>1. Chip' /\ Call' /\ Unchanged' /\ flashCall'.name = name /\ todo' = steps
    BY <1>1, <1>2, Started
  <2>2. OnlyHarmless'
    BY <1>2, <2>1 DEF OnlyHarmless, HarmlessWords, wait_ready, wait_ready_flag, WRITE_ENABLE
  <2>3. Running'
    BY <2>1, <2>2 DEF Running
  <2> QED BY <2>1, <2>3 DEF FlashInv
<1>3. /\ FLASH_read_device_id \in Seq(HarmlessWords) /\ FLASH_get_status \in Seq(HarmlessWords)
      /\ FLASH_global_unprotect \in Seq(HarmlessWords)
  <2>1. /\ [do |-> "id"] \in HarmlessWords /\ [do |-> "status"] \in HarmlessWords
        /\ [do |-> "write_status"] \in HarmlessWords /\ wait_ready \in HarmlessWords
        /\ wait_ready_flag \in HarmlessWords /\ WRITE_ENABLE \in HarmlessWords
    BY DEF HarmlessWords
  <2> HIDE DEF HarmlessWords
  <2> QED BY <2>1 DEF FLASH_read_device_id, FLASH_get_status, FLASH_global_unprotect
<1>4. CASE FlashStart("chip_erase", 0, 0, FLASH_chip_erase)
  <2>1. /\ Chip' /\ Call' /\ Unchanged' /\ flashCall'.name = "chip_erase"
        /\ todo' = <<wait_ready, WRITE_ENABLE, wait_ready, Erase(FlashAddr), wait_ready>>
    BY <1>1, <1>4, Started DEF FLASH_chip_erase
  <2>2. Erasing(FlashAddr)'
    BY <2>1 DEF Erasing
  <2>3. Running'
    BY <2>1, <2>2 DEF Running
  <2> QED BY <2>1, <2>3 DEF FlashInv
<1>5. ASSUME NEW a \in FlashAddr, FlashStart("erase_4k_block", a, 0, FLASH_erase_4k_block(a))
      PROVE  FlashInv'
  <2> DEFINE u == Unit(a, BlockCells)
  <2>1. /\ Chip' /\ Call' /\ Unchanged' /\ flashCall'.name = "erase_4k_block" /\ flashCall'.at = a
        /\ todo' = <<wait_ready, WRITE_ENABLE, wait_ready_flag, wait_ready, Erase(u), wait_ready>>
    BY <1>1, <1>5, Started DEF FLASH_erase_4k_block
  <2>2. Erasing(u)'
    BY <2>1 DEF Erasing
  <2>3. Running'
    BY <2>1, <2>2 DEF Running
  <2> QED BY <2>1, <2>3 DEF FlashInv
<1>6. ASSUME NEW a \in FlashAddr, FlashStart("erase_64k_block", a, 0, FLASH_erase_64k_block(a))
      PROVE  FlashInv'
  <2> DEFINE u == Unit(a, SectorCells)
  <2>1. /\ Chip' /\ Call' /\ Unchanged' /\ flashCall'.name = "erase_64k_block" /\ flashCall'.at = a
        /\ todo' = <<wait_ready, WRITE_ENABLE, wait_ready, Erase(u), wait_ready>>
    BY <1>1, <1>6, Started DEF FLASH_erase_64k_block
  <2>2. Erasing(u)'
    BY <2>1 DEF Erasing
  <2>3. Running'
    BY <2>1, <2>2 DEF Running
  <2> QED BY <2>1, <2>3 DEF FlashInv
<1>7. ASSUME NEW a \in FlashAddr, NEW n \in 0..MaxBytes, FlashStart("read", a, n, FLASH_read(a, n))
      PROVE  FlashInv'
  <2>1. /\ Chip' /\ Call' /\ Unchanged' /\ flashCall'.name = "read"
        /\ flashCall'.at = a /\ flashCall'.n = n
        /\ todo' = <<wait_ready, [do |-> "read", at |-> a, n |-> n], wait_ready>>
    BY <1>1, <1>7, Started DEF FLASH_read
  <2>2. ReadOut'
    BY <2>1 DEF ReadOut, Read
  <2>3. Running'
    BY <2>1, <2>2 DEF Running
  <2> QED BY <2>1, <2>3 DEF FlashInv
<1>8. ASSUME NEW a \in FlashAddr, NEW n \in 0..MaxBytes, FlashStart("program", a, n, FLASH_program)
      PROVE  FlashInv'
  <2>1. /\ Chip' /\ Call' /\ Holding(Part(0))' /\ flashCall'.name = "program"
        /\ flashCall'.at = a /\ flashCall'.n = n
        /\ todo' = <<wait_ready, WRITE_ENABLE, wait_ready, WRITE_ENABLE, turn>>
        /\ flashLoop' = [target |-> a + 0, idx |-> 0]
    BY <1>1, <1>8, Started DEF FLASH_program, turn
  <2>2. Programming'
    <3>1. 0 \in 0..flashCall'.n
      BY <2>1
    <3> QED BY <2>1, <3>1 DEF Programming
  <2>3. Running'
    BY <2>1, <2>2 DEF Running
  <2> QED BY <2>1, <2>3 DEF FlashInv
<1> QED BY <1>2, <1>3, <1>4, <1>5, <1>6, <1>7, <1>8 DEF flash_call

LEMMA StepInv ==
  ASSUME FlashInv, flash_step
  PROVE  FlashInv'
<1>1. Chip /\ Call /\ Running
  BY DEF FlashInv, flash_step
<1>2. Chip' /\ Call' /\ SameCall
  BY <1>1, StepChip, StepCall
<1>3. CASE flashCall.name = "erase_4k_block"
  <2>1. PICK u : u = Unit(flashCall.at, BlockCells)
    OBVIOUS
  <2>2. Erasing(u)'
    BY <1>1, <1>3, <2>1, EraseStep DEF Running
  <2>3. u = Unit(flashCall.at, BlockCells)'
    BY <1>2, <2>1 DEF SameCall, Unit
  <2> QED BY <1>2, <1>3, <2>2, <2>3 DEF Running, SameCall, FlashInv
<1>4. CASE flashCall.name = "erase_64k_block"
  <2>1. PICK u : u = Unit(flashCall.at, SectorCells)
    OBVIOUS
  <2>2. Erasing(u)'
    BY <1>1, <1>4, <2>1, EraseStep DEF Running
  <2>3. u = Unit(flashCall.at, SectorCells)'
    BY <1>2, <2>1 DEF SameCall, Unit
  <2> QED BY <1>2, <1>4, <2>2, <2>3 DEF Running, SameCall, FlashInv
<1>5. CASE flashCall.name = "chip_erase"
  <2>1. Erasing(FlashAddr)'
    BY <1>1, <1>5, EraseStep DEF Running
  <2> QED BY <1>2, <1>5, <2>1 DEF Running, SameCall, FlashInv
<1>6. CASE flashCall.name = "read"
  BY <1>1, <1>2, <1>6, ReadStep DEF Running, SameCall, FlashInv
<1>7. CASE flashCall.name = "program"
  <2>1. Programming'
    BY <1>1, <1>7, WritingStep, ProgramStep DEF Running, Programming
  <2> QED BY <1>2, <1>7, <2>1 DEF Running, SameCall, FlashInv
<1>8. CASE Harmless(flashCall.name)
  <2>1. OnlyHarmless'
    BY <1>1, <1>8, HarmlessStep DEF Running, Harmless
  <2> QED BY <1>2, <1>8, <2>1 DEF Running, Harmless, SameCall, FlashInv
<1> QED BY <1>3, <1>4, <1>5, <1>6, <1>7, <1>8 DEF Harmless

(* The flash finishes whenever it likes: nothing that is waited for as     *)
(* done was still under way.                                               *)
LEMMA CompleteInv ==
  ASSUME FlashInv, complete
  PROVE  FlashInv'
<1>1. Chip /\ Call /\ UNCHANGED <<todo, flashLoop, flashCall>>
  BY DEF FlashInv, complete
<1>2. Chip' /\ Call' /\ SameCall /\ ~Calm /\ Settled(chip)' = Settled(chip)
  BY <1>1, CompleteSettled DEF Call, SameCall
<1>3. CASE todo = <<>> /\ ~flashCall.over
  BY <1>1, <1>2, <1>3 DEF FlashInv
<1>4. CASE Running
  <2>1. ASSUME NEW u, Erasing(u) PROVE Erasing(u)'
    BY <1>1, <1>2, <2>1, Still DEF Erasing
  <2>2. ASSUME ReadOut PROVE ReadOut'
    BY <1>1, <1>2, <2>2, Still DEF ReadOut
  <2>3. ASSUME Programming PROVE Programming'
    BY <1>1, <1>2, <2>3, Still DEF Programming, Writing
  <2>4. ASSUME OnlyHarmless PROVE OnlyHarmless'
    BY <1>1, <1>2, <2>4, Still DEF OnlyHarmless
  <2>5. Running'
    <3>1. PICK u, v : u = Unit(flashCall.at, BlockCells) /\ v = Unit(flashCall.at, SectorCells)
      OBVIOUS
    <3>2. u = Unit(flashCall.at, BlockCells)' /\ v = Unit(flashCall.at, SectorCells)'
      BY <1>1, <3>1 DEF Unit
    <3> QED BY <1>1, <1>4, <2>1, <2>2, <2>3, <2>4, <3>1, <3>2 DEF Running
  <2> QED BY <1>2, <2>5 DEF FlashInv
<1> QED BY <1>3, <1>4 DEF FlashInv

LEMMA RestartInv ==
  ASSUME FlashInv, FLASH_init
  PROVE  FlashInv'
<1>1. /\ todo' = <<>> /\ flashCall' = [flashCall EXCEPT !.over = FALSE] /\ chip' = chip
      /\ Chip /\ Call
  BY DEF FlashInv, FLASH_init
<1>2. Call' /\ ~flashCall'.over
  BY <1>1 DEF Call
<1>3. Chip'
  BY <1>1 DEF Chip, Calm
<1> QED BY <1>1, <1>2, <1>3 DEF FlashInv

LEMMA IdleInv ==
  ASSUME FlashInv, UNCHANGED flashVars
  PROVE  FlashInv'
<1>1. UNCHANGED <<chip, todo, flashLoop, flashCall>>
  BY DEF flashVars
<1>2. Chip' /\ Call'
  BY <1>1 DEF FlashInv, Chip, Call, Calm
<1>3. Running' <=> Running
  BY <1>1 DEF Running, Erasing, ReadOut, Programming, OnlyHarmless, Writing, Holding, Unchanged,
              Calm, Wiped, Part, Read, Asked, Unit, Settled
<1> QED BY <1>1, <1>2, <1>3 DEF FlashInv

LEMMA NextFlashInv == FlashInv /\ [FlashNext]_flashVars => FlashInv'
BY FlashCallInv, StepInv, CompleteInv, RestartInv, IdleInv DEF FlashNext

(* When a function is over, so is what it asked the flash to do.           *)
LEMMA SoundByInv == FlashInv => FlashSound
<1> SUFFICES ASSUME FlashInv, flashCall.over, todo = <<>> PROVE FlashSound
  BY DEF FlashSound
<1>1. Running /\ Call
  BY DEF FlashInv
<1>2. ASSUME NEW u, Erasing(u) PROVE Erased(u) /\ chip.op = Idle_
  <2>1. Holding(Wiped(u)) /\ Calm
    BY <1>2 DEF Erasing
  <2>2. chip.cells = Wiped(u)
    BY <2>1, CalmSettled DEF Holding
  <2> QED BY <2>1, <2>2 DEF Erased, Wiped, Calm
<1>3. ASSUME ReadOut PROVE flashCall.given = Asked
  BY <1>3 DEF ReadOut
<1>4. ASSUME Programming PROVE Programmed /\ chip.op = Idle_
  <2>1. Holding(Part(flashCall.n)) /\ Calm
    BY <1>4 DEF Programming, Writing
  <2>2. chip.cells = Part(flashCall.n)
    BY <2>1, CalmSettled DEF Holding
  <2> QED BY <2>1, <2>2 DEF Programmed, Part, Calm
<1>5. ASSUME OnlyHarmless PROVE Settled(chip) = flashCall.before
  BY <1>5 DEF OnlyHarmless, Unchanged, Holding
<1> QED BY <1>1, <1>2, <1>3, <1>4, <1>5 DEF Running, FlashSound, Asked

(* Erase, program and read do what they were asked to, everywhere they     *)
(* were asked to and nowhere else, whatever time the flash takes and       *)
(* wherever the MSS was started again before.                              *)
THEOREM FlashSafe == FlashSpec => []FlashSound
BY InitFlashInv, NextFlashInv, SoundByInv, PTL DEF FlashSpec

(* What a driver may send, and what the flash may be doing: a program      *)
(* command carries bytes of the buffer only.                               *)
FlashPrograms ==
  {w \in [do : {"program"}, to : Int, from : 0..MaxBytes, n : 0..MaxBytes] : w.from + w.n <= MaxBytes}

FlashWords ==
  [do : {"wait_ready", "wait_ready_flag", "write_enable", "write_disable", "write_status", "id",
         "status", "next_page", "nothing"}]
    \cup [do : {"erase"}, unit : SUBSET Int] \cup [do : {"read"}, at : Int, n : Int]
    \cup FlashPrograms

CellValues == {Old, Mixed, ErasedCell} \cup 1..MaxBytes

ChipRecord == [cells : [FlashAddr -> CellValues], op : FlashWords, wel : BOOLEAN]

(* The loop of FLASH_program is as far in the flash as in its buffer.      *)
FlashTypes ==
  /\ chip \in ChipRecord
  /\ todo \in Seq(FlashWords) /\ Len(todo) <= 7
  /\ flashCall.at \in FlashAddr /\ flashCall.n \in 0..MaxBytes /\ flashCall.at + flashCall.n <= FlashCells
  /\ flashLoop \in [target : Nat, idx : Nat]
  /\ flashLoop.idx <= flashCall.n /\ flashLoop.target = flashCall.at + flashLoop.idx

LEMMA FlashNats ==
  /\ PageCells \in Nat \ {0} /\ BlockCells \in Nat \ {0} /\ SectorCells \in Nat \ {0}
  /\ FlashCells \in Nat \ {0} /\ MaxBytes \in Nat /\ 0 \in FlashAddr
BY FlashAssumption DEF FlashAddr

LEMMA FlashWordsAre ==
  /\ {wait_ready, wait_ready_flag, WRITE_ENABLE, WRITE_DISABLE, turn, Idle_, [do |-> "write_status"],
      [do |-> "id"], [do |-> "status"]} \subseteq FlashWords
  /\ \A unit \in SUBSET Int : Erase(unit) \in FlashWords
  /\ \A a, n \in Int : [do |-> "read", at |-> a, n |-> n] \in FlashWords
  /\ \A to \in Int, from, n \in 0..MaxBytes :
       from + n <= MaxBytes => write_cmd_data(to, from, n) \in FlashWords
  /\ \A w \in FlashWords : w.do = "program" => w \in FlashPrograms
BY DEF FlashWords, FlashPrograms, wait_ready, wait_ready_flag, WRITE_ENABLE, WRITE_DISABLE, turn,
       Idle_, Erase, write_cmd_data

LEMMA FlashTypesStart == FlashInit => FlashTypes
<1> SUFFICES ASSUME FlashInit PROVE FlashTypes
  OBVIOUS
<1>1. Old \in CellValues /\ Idle_ \in FlashWords
  BY FlashWordsAre DEF CellValues
<1>2. chip \in ChipRecord
  BY <1>1 DEF FlashInit, ChipRecord
<1>3. todo \in Seq(FlashWords) /\ Len(todo) <= 7
  BY EmptySeq DEF FlashInit
<1>4. /\ flashCall.at = 0 /\ flashCall.n = 0 /\ flashLoop = [target |-> 0, idx |-> 0]
  BY DEF FlashInit
<1> QED BY <1>2, <1>3, <1>4, FlashNats DEF FlashTypes

(* An operation leaves in a cell what it may hold: the mark of an old, an  *)
(* erased or a spoiled cell, or the number of a byte.                      *)
LEMMA EffectTyped ==
  ASSUME NEW cells \in [FlashAddr -> CellValues], NEW op \in FlashWords
  PROVE  Effect(cells, op) \in [FlashAddr -> CellValues]
<1>1. CASE op.do = "erase"
  <2>1. Effect(cells, op) = [a \in FlashAddr |-> IF a \in op.unit THEN ErasedCell ELSE cells[a]]
    BY <1>1 DEF Effect
  <2>2. \A a \in FlashAddr : (IF a \in op.unit THEN ErasedCell ELSE cells[a]) \in CellValues
    BY DEF CellValues
  <2> QED BY <2>1, <2>2
<1>2. CASE op.do = "program"
  <2> DEFINE base == op.to - (op.to % PageCells)
             hits(a) == {i \in 1..op.n : a = base + ((op.to + i - 1) % PageCells)}
             New(a) == IF hits(a) = {} THEN cells[a]
                       ELSE IF cells[a] = ErasedCell /\ \E i \in hits(a) : hits(a) = {i}
                            THEN op.from + (CHOOSE i \in hits(a) : TRUE)
                            ELSE Mixed
  <2>1. Effect(cells, op) = [a \in FlashAddr |-> New(a)]
    BY <1>2 DEF Effect
  <2>2. op.from \in 0..MaxBytes /\ op.n \in 0..MaxBytes /\ op.from + op.n <= MaxBytes /\ MaxBytes \in Nat
    BY <1>2, FlashWordsAre, FlashNats DEF FlashPrograms
  <2>3. \A a : hits(a) \subseteq 1..op.n
    OBVIOUS
  <2> HIDE DEF hits
  <2>4. ASSUME NEW a \in FlashAddr PROVE New(a) \in CellValues
    <3>1. CASE hits(a) = {}
      BY <3>1 DEF CellValues
    <3>2. CASE hits(a) # {}
      <4>1. (CHOOSE i \in hits(a) : TRUE) \in hits(a)
        BY <3>2
      <4>2. (CHOOSE i \in hits(a) : TRUE) \in 1..op.n
        BY <2>3, <4>1
      <4>3. op.from + (CHOOSE i \in hits(a) : TRUE) \in 1..MaxBytes
        BY <2>2, <4>2
      <4> QED BY <3>2, <4>3 DEF CellValues
    <3> QED BY <3>1, <3>2
  <2> HIDE DEF New
  <2> QED BY <2>1, <2>4
<1>3. CASE op.do \notin {"erase", "program"}
  BY <1>3 DEF Effect
<1> QED BY <1>1, <1>2, <1>3

LEMMA StartTyped ==
  ASSUME FlashTypes, NEW name, NEW a \in FlashAddr, NEW n \in 0..MaxBytes, a + n <= FlashCells,
         NEW steps \in Seq(FlashWords), Len(steps) <= 7, FlashStart(name, a, n, steps)
  PROVE  FlashTypes'
<1>1. /\ todo' = steps /\ flashLoop' = [target |-> a, idx |-> 0] /\ chip' = chip
      /\ flashCall'.at = a /\ flashCall'.n = n
  BY DEF FlashStart
<1>2. a \in Nat /\ n \in Nat /\ a = a + 0
  BY FlashNats DEF FlashAddr
<1> QED BY <1>1, <1>2 DEF FlashTypes

(* The functions. *)
LEMMA FlashFunctions ==
  /\ FLASH_read_device_id \in Seq(FlashWords) /\ Len(FLASH_read_device_id) <= 7
  /\ FLASH_get_status \in Seq(FlashWords) /\ Len(FLASH_get_status) <= 7
  /\ FLASH_global_unprotect \in Seq(FlashWords) /\ Len(FLASH_global_unprotect) <= 7
  /\ FLASH_chip_erase \in Seq(FlashWords) /\ Len(FLASH_chip_erase) <= 7
  /\ FLASH_program \in Seq(FlashWords) /\ Len(FLASH_program) <= 7
  /\ \A a, n \in Nat : /\ FLASH_read(a, n) \in Seq(FlashWords) /\ Len(FLASH_read(a, n)) <= 7
                       /\ FLASH_erase_4k_block(a) \in Seq(FlashWords) /\ Len(FLASH_erase_4k_block(a)) <= 7
                       /\ FLASH_erase_64k_block(a) \in Seq(FlashWords) /\ Len(FLASH_erase_64k_block(a)) <= 7
<1>1. /\ wait_ready \in FlashWords /\ wait_ready_flag \in FlashWords /\ WRITE_ENABLE \in FlashWords
      /\ [do |-> "next_page"] \in FlashWords /\ [do |-> "write_status"] \in FlashWords
      /\ [do |-> "id"] \in FlashWords /\ [do |-> "status"] \in FlashWords
  BY FlashWordsAre DEF turn
<1>2. Erase(FlashAddr) \in FlashWords
  <2>1. FlashAddr \in SUBSET Int
    BY FlashNats DEF FlashAddr
  <2> QED BY <2>1, FlashWordsAre
<1>3. ASSUME NEW a \in Nat, NEW n \in Nat
      PROVE  /\ [do |-> "read", at |-> a, n |-> n] \in FlashWords
             /\ Erase(Unit(a, BlockCells)) \in FlashWords /\ Erase(Unit(a, SectorCells)) \in FlashWords
  <2>1. Unit(a, BlockCells) \in SUBSET Int /\ Unit(a, SectorCells) \in SUBSET Int
    BY FlashNats DEF Unit
  <2>2. a \in Int /\ n \in Int
    OBVIOUS
  <2> QED BY <2>1, <2>2, FlashWordsAre
<1>4. ASSUME NEW u \in FlashWords
      PROVE  /\ <<wait_ready, u, wait_ready>> \in Seq(FlashWords)
             /\ Len(<<wait_ready, u, wait_ready>>) = 3
             /\ <<wait_ready, WRITE_ENABLE, wait_ready, u, wait_ready>> \in Seq(FlashWords)
             /\ Len(<<wait_ready, WRITE_ENABLE, wait_ready, u, wait_ready>>) = 5
             /\ <<wait_ready, WRITE_ENABLE, wait_ready_flag, wait_ready, u, wait_ready>>
                  \in Seq(FlashWords)
             /\ Len(<<wait_ready, WRITE_ENABLE, wait_ready_flag, wait_ready, u, wait_ready>>) = 6
  BY <1>1
<1>5. ASSUME NEW a \in Nat, NEW n \in Nat
      PROVE  /\ FLASH_read(a, n) \in Seq(FlashWords) /\ Len(FLASH_read(a, n)) <= 7
             /\ FLASH_erase_4k_block(a) \in Seq(FlashWords) /\ Len(FLASH_erase_4k_block(a)) <= 7
             /\ FLASH_erase_64k_block(a) \in Seq(FlashWords) /\ Len(FLASH_erase_64k_block(a)) <= 7
  <2> DEFINE r == [do |-> "read", at |-> a, n |-> n]
             b == Erase(Unit(a, BlockCells))
             s == Erase(Unit(a, SectorCells))
  <2>1. r \in FlashWords /\ b \in FlashWords /\ s \in FlashWords
    BY <1>3
  <2>2. /\ FLASH_read(a, n) = <<wait_ready, r, wait_ready>>
        /\ FLASH_erase_4k_block(a) =
             <<wait_ready, WRITE_ENABLE, wait_ready_flag, wait_ready, b, wait_ready>>
        /\ FLASH_erase_64k_block(a) = <<wait_ready, WRITE_ENABLE, wait_ready, s, wait_ready>>
    BY DEF FLASH_read, FLASH_erase_4k_block, FLASH_erase_64k_block
  <2> HIDE DEF r, b, s
  <2>3. 3 <= 7 /\ 5 <= 7 /\ 6 <= 7
    OBVIOUS
  <2> QED BY <1>4, <2>1, <2>2, <2>3
<1>6. FLASH_global_unprotect \in Seq(FlashWords) /\ Len(FLASH_global_unprotect) <= 7
  BY <1>1 DEF FLASH_global_unprotect
<1>7. /\ FLASH_read_device_id \in Seq(FlashWords) /\ Len(FLASH_read_device_id) <= 7
      /\ FLASH_get_status \in Seq(FlashWords) /\ Len(FLASH_get_status) <= 7
      /\ FLASH_chip_erase \in Seq(FlashWords) /\ Len(FLASH_chip_erase) <= 7
      /\ FLASH_program \in Seq(FlashWords) /\ Len(FLASH_program) <= 7
  BY <1>1, <1>2 DEF FLASH_read_device_id, FLASH_get_status, FLASH_chip_erase, FLASH_program
<1> QED BY <1>5, <1>6, <1>7

LEMMA CallTyped == ASSUME FlashTypes, flash_call PROVE FlashTypes'
<1>1. 0 \in FlashAddr /\ 0 \in 0..MaxBytes /\ 0 + 0 <= FlashCells
  BY FlashNats
<1>2. ASSUME NEW a \in FlashAddr PROVE a \in Nat /\ a + 0 <= FlashCells
  BY FlashNats DEF FlashAddr
<1>3. ASSUME FlashStart("read_device_id", 0, 0, FLASH_read_device_id) PROVE FlashTypes'
  BY <1>1, <1>3, FlashFunctions, StartTyped
<1>4. ASSUME FlashStart("get_status", 0, 0, FLASH_get_status) PROVE FlashTypes'
  BY <1>1, <1>4, FlashFunctions, StartTyped
<1>5. ASSUME FlashStart("global_unprotect", 0, 0, FLASH_global_unprotect) PROVE FlashTypes'
  BY <1>1, <1>5, FlashFunctions, StartTyped
<1>6. ASSUME FlashStart("chip_erase", 0, 0, FLASH_chip_erase) PROVE FlashTypes'
  BY <1>1, <1>6, FlashFunctions, StartTyped
<1>7. ASSUME NEW a \in FlashAddr, FlashStart("erase_4k_block", a, 0, FLASH_erase_4k_block(a))
      PROVE  FlashTypes'
  BY <1>1, <1>2, <1>7, FlashFunctions, StartTyped
<1>8. ASSUME NEW a \in FlashAddr, FlashStart("erase_64k_block", a, 0, FLASH_erase_64k_block(a))
      PROVE  FlashTypes'
  BY <1>1, <1>2, <1>8, FlashFunctions, StartTyped
<1>9. ASSUME NEW a \in FlashAddr, NEW n \in 0..MaxBytes, a + n <= FlashCells,
             FlashStart("read", a, n, FLASH_read(a, n))
      PROVE  FlashTypes'
  <2>1. a \in Nat /\ n \in Nat
    BY <1>2, FlashNats
  <2> QED BY <1>9, <2>1, FlashFunctions, StartTyped
<1>10. ASSUME NEW a \in FlashAddr, NEW n \in 0..MaxBytes, a + n <= FlashCells,
              FlashStart("program", a, n, FLASH_program)
       PROVE  FlashTypes'
  BY <1>10, FlashFunctions, StartTyped
<1> QED BY <1>3, <1>4, <1>5, <1>6, <1>7, <1>8, <1>9, <1>10 DEF flash_call

(* The next page: no more than is left of the buffer.                      *)
LEMMA NextPageTyped ==
  ASSUME NEW size \in 0..MaxBytes, NEW l \in [target : Nat, idx : Nat], l.idx <= size
  PROVE  LET p == next_page(l, size)
         IN  /\ p.todo \in Seq(FlashWords) /\ Len(p.todo) <= 7
             /\ p.loop \in [target : Nat, idx : Nat] /\ p.loop.idx <= size
             /\ p.loop.target - l.target = p.loop.idx - l.idx
<1> DEFINE n == nb_bytes_to_write(l, size)
           w == write_cmd_data(l.target, l.idx, n)
<1>1. l.target \in Nat /\ l.idx \in Nat /\ size \in Nat /\ MaxBytes \in Nat /\ PageCells \in Nat \ {0}
  BY FlashNats
<1>2. l.target % PageCells \in 0..(PageCells - 1)
  BY <1>1
<1>3. n \in Nat /\ n <= size - l.idx
  BY <1>1, <1>2 DEF nb_bytes_to_write
<1> HIDE DEF n
<1>4. w \in FlashWords
  <2>1. l.target \in Int /\ l.idx \in 0..MaxBytes /\ n \in 0..MaxBytes /\ l.idx + n <= MaxBytes
    BY <1>1, <1>3
  <2> QED BY <2>1, FlashWordsAre
<1>5. /\ wait_ready \in FlashWords /\ wait_ready_flag \in FlashWords /\ WRITE_ENABLE \in FlashWords
      /\ WRITE_DISABLE \in FlashWords /\ [do |-> "next_page"] \in FlashWords
  BY FlashWordsAre DEF turn
<1>6. CASE l.idx < size
  <2>1. /\ next_page(l, size).todo = <<wait_ready, WRITE_ENABLE, wait_ready, w, [do |-> "next_page"]>>
        /\ next_page(l, size).loop = [target |-> l.target + n, idx |-> l.idx + n]
    BY <1>6 DEF next_page, n
  <2> HIDE DEF w
  <2> QED BY <1>1, <1>3, <1>4, <1>5, <2>1
<1>7. CASE ~(l.idx < size)
  <2>1. /\ next_page(l, size).todo = <<wait_ready_flag, wait_ready, WRITE_DISABLE>>
        /\ next_page(l, size).loop = l
    BY <1>7 DEF next_page
  <2> QED BY <1>1, <1>5, <2>1
<1> QED BY <1>6, <1>7

LEMMA StepTyped == ASSUME FlashTypes, flash_step PROVE FlashTypes'
<1> DEFINE h == Head(todo)
<1>1. /\ todo \in Seq(FlashWords) /\ todo # <<>> /\ Len(todo) <= 7 /\ h \in FlashWords
      /\ Tail(todo) \in Seq(FlashWords) /\ Len(Tail(todo)) <= 7
  BY DEF FlashTypes, flash_step
<1>2. /\ flashCall'.at = flashCall.at /\ flashCall'.n = flashCall.n /\ chip' = Received(chip, h)
      /\ h.do = "next_page" => /\ todo' = next_page(flashLoop, flashCall.n).todo
                               /\ flashLoop' = next_page(flashLoop, flashCall.n).loop
      /\ h.do # "next_page" => todo' = Tail(todo) /\ flashLoop' = flashLoop
  BY DEF flash_step
<1> HIDE DEF h
<1>3. chip' \in ChipRecord
  BY <1>1, <1>2 DEF FlashTypes, ChipRecord, Received
<1>4. CASE h.do # "next_page"
  BY <1>1, <1>2, <1>3, <1>4 DEF FlashTypes
<1>5. CASE h.do = "next_page"
  <2>1. /\ flashCall.n \in 0..MaxBytes /\ flashLoop \in [target : Nat, idx : Nat]
        /\ flashLoop.idx <= flashCall.n /\ flashLoop.target = flashCall.at + flashLoop.idx
        /\ flashCall.at \in Int /\ flashLoop.idx \in Int
    BY FlashNats DEF FlashTypes, FlashAddr
  <2>2. /\ todo' \in Seq(FlashWords) /\ Len(todo') <= 7
        /\ flashLoop' \in [target : Nat, idx : Nat] /\ flashLoop'.idx <= flashCall.n
        /\ flashLoop'.target - flashLoop.target = flashLoop'.idx - flashLoop.idx
    BY <1>2, <1>5, <2>1, NextPageTyped
  <2>3. flashLoop'.target = flashCall.at + flashLoop'.idx
    <3>1. /\ flashCall.at \in Int /\ flashLoop.idx \in Int /\ flashLoop.target = flashCall.at + flashLoop.idx
          /\ flashLoop'.target \in Int /\ flashLoop'.idx \in Int
          /\ flashLoop'.target - flashLoop.target = flashLoop'.idx - flashLoop.idx
      BY <2>1, <2>2
    <3> QED BY ONLY <3>1
  <2> QED BY <1>2, <1>3, <2>2, <2>3 DEF FlashTypes
<1> QED BY <1>4, <1>5

LEMMA FlashTypesSteps == FlashTypes /\ [FlashNext]_flashVars => FlashTypes'
<1> SUFFICES ASSUME FlashTypes, [FlashNext]_flashVars PROVE FlashTypes'
  OBVIOUS
<1>1. CASE complete
  <2>1. Settled(chip) \in [FlashAddr -> CellValues]
    BY EffectTyped DEF FlashTypes, ChipRecord, Settled
  <2>2. chip' \in ChipRecord
    BY <1>1, <2>1, FlashWordsAre DEF complete, ChipRecord
  <2> QED BY <1>1, <2>2 DEF complete, FlashTypes
<1>2. CASE FLASH_init
  <2>1. /\ todo' = <<>> /\ chip' = chip /\ flashLoop' = flashLoop
        /\ flashCall'.at = flashCall.at /\ flashCall'.n = flashCall.n
    BY <1>2 DEF FLASH_init
  <2>2. <<>> \in Seq(FlashWords) /\ Len(<<>>) = 0
    OBVIOUS
  <2> QED BY <2>1, <2>2 DEF FlashTypes
<1>3. CASE UNCHANGED flashVars
  BY <1>3 DEF flashVars, FlashTypes
<1> QED BY <1>1, <1>2, <1>3, CallTyped, StepTyped DEF FlashNext

(* For every page, block, sector and flash: the address and the index of   *)
(* FLASH_program's loop stay within the flash and the caller's buffer, and *)
(* a cell holds a byte of a buffer, nothing, or a mark of what was there.  *)
THEOREM FlashAlwaysTyped == FlashSpec => []FlashTypeOK
<1>1. ASSUME FlashTypes PROVE FlashTypeOK
  <2>1. /\ flashCall.at \in 0..(FlashCells - 1) /\ flashCall.n \in 0..MaxBytes
        /\ flashCall.at + flashCall.n <= FlashCells
        /\ flashLoop.idx \in Nat /\ flashLoop.idx <= flashCall.n
        /\ flashLoop.target = flashCall.at + flashLoop.idx /\ FlashCells \in Nat /\ MaxBytes \in Nat
    BY <1>1, FlashNats DEF FlashTypes, FlashAddr
  <2>2. flashLoop.idx \in 0..MaxBytes /\ flashLoop.target \in 0..FlashCells
    BY <2>1
  <2> QED BY <1>1, <2>2 DEF FlashTypes, ChipRecord, CellValues, FlashTypeOK
<1> QED BY <1>1, FlashTypesStart, FlashTypesSteps, PTL DEF FlashSpec

----------------------------------------------------------------------------
(* The DMA.                                                                *)

States    == HpdmaErrors \cup {"IN_PROGRESS", "COMPLETED"}
DmaRecord == [state : States, blocks : Nat, total : Nat, next : Nat, current_desc : Slots,
              end_desc : Nat, started : Nat]
Descriptor == [valid : BOOLEAN, pause : BOOLEAN, irq : BOOLEAN, block : Nat]

DmaTypes ==
  /\ dma \in DmaRecord
  /\ ring \in [Slots -> Descriptor]
  /\ dmaIrq \in [done : SUBSET Slots, error : BOOLEAN]
  /\ dmaAt \in {"free", "fill", "count"}
  /\ copied \in Seq(Nat)

(* The block a descriptor was last given, when g blocks have been given in *)
(* the order of the ring and no descriptor more than twice; 0 for none.    *)
Occupant(s, g) ==
  IF s + Descriptors + 1 <= g THEN s + Descriptors + 1 ELSE IF s + 1 <= g THEN s + 1 ELSE 0

(* Of the blocks of a transfer, g were given to descriptors, the first m   *)
(* of them moved, and the interrupts of the first h handled.               *)
Counts(g, h, m) ==
  /\ g \in Nat /\ h \in Nat /\ m \in Nat
  /\ dma.total >= 1 /\ dma.total <= 2 * Descriptors
  /\ h <= m /\ m <= g /\ g <= dma.total /\ h < dma.total
  /\ dma.blocks = dma.total - g
  /\ g < dma.total => dma.next = g + 1
  /\ dma.current_desc = IF h < Descriptors THEN h ELSE h - Descriptors

Moved(m) == Len(copied) = m /\ \A i \in 1..m : copied[i] = i

DmaGiven(g, h, m) ==
  /\ \A s \in Slots : ring[s].valid <=> Occupant(s, g) > m
  /\ \A s \in Slots : ring[s].irq <=> Occupant(s, g) > h
  /\ \A s \in Slots : Occupant(s, g) > 0 => ring[s].block = Occupant(s, g)
  /\ \A s \in Slots : s \in dmaIrq.done <=> h < Occupant(s, g) /\ Occupant(s, g) <= m

(* Nothing is handled while MSS_HPDMA_start fills the ring; afterwards     *)
(* each interrupt handled gives its descriptor another block.              *)
Filling(g, h) ==
  /\ dmaAt = "fill" => h = 0 /\ dma.end_desc = g /\ g <= Descriptors
  /\ dmaAt = "count" => h = 0 /\ dma.end_desc = g - 1 /\ g >= 1 /\ g <= Descriptors
  /\ dmaAt = "free" =>
       /\ g = IF dma.total <= Descriptors + h THEN dma.total ELSE Descriptors + h
       /\ dma.total > Descriptors =>
            dma.end_desc = IF g = Descriptors THEN Descriptors ELSE g - Descriptors - 1

Transfer(g, h, m) == Counts(g, h, m) /\ Moved(m) /\ DmaGiven(g, h, m) /\ Filling(g, h)

DmaInv ==
  /\ DmaTypes
  /\ dmaUpset = {} /\ dma.state = "IN_PROGRESS" => \E g, h, m \in Nat : Transfer(g, h, m)

----------------------------------------------------------------------------
(* Where a transfer stands after a step that gives, moves and handles      *)
(* nothing.                                                                *)
LEMMA InitDmaInv == HpdmaInit => DmaInv
<1> SUFFICES ASSUME HpdmaInit PROVE DmaInv
  OBVIOUS
<1>1. 0 \in Slots
  BY HpdmaAssumption DEF Slots
<1>2. DmaTypes
  <2>1. dma \in DmaRecord
    BY <1>1 DEF HpdmaInit, DmaRecord, States
  <2>2. ring \in [Slots -> Descriptor]
    BY DEF HpdmaInit, Descriptor, Cleared
  <2>3. copied \in Seq(Nat)
    BY DEF HpdmaInit
  <2> QED BY <2>1, <2>2, <2>3 DEF HpdmaInit, DmaTypes
<1> QED BY <1>2 DEF DmaInv, HpdmaInit

(* The thread calls MSS_HPDMA_init.                                        *)
LEMMA InitCallInv == ASSUME DmaInv, MSS_HPDMA_init PROVE DmaInv'
<1>1. /\ dma' = [dma EXCEPT !.blocks = 0, !.state = "COMPLETED"]
      /\ ring' = [i \in Slots |-> [Cleared EXCEPT !.pause = TRUE]]
      /\ dmaIrq' = [done |-> {}, error |-> FALSE]
      /\ UNCHANGED <<dmaAt, copied>>
  BY DEF MSS_HPDMA_init
<1>2. dma' \in DmaRecord /\ dma'.state = "COMPLETED"
  BY <1>1 DEF DmaInv, DmaTypes, DmaRecord, States
<1>3. ring' \in [Slots -> Descriptor]
  BY <1>1 DEF Cleared, Descriptor
<1> QED BY <1>1, <1>2, <1>3 DEF DmaInv, DmaTypes

(* A transfer starts with nothing given.                                   *)
LEMMA StartInv == ASSUME DmaInv, NEW n \in 1..MaxBlocks, MSS_HPDMA_start(n) PROVE DmaInv'
<1>1. /\ dma' = [dma EXCEPT !.started = @ + 1, !.state = "IN_PROGRESS", !.blocks = n, !.total = n,
                            !.next = 1, !.current_desc = 0, !.end_desc = 0]
      /\ dmaAt' = "fill" /\ copied' = <<>> /\ ring' = ring /\ dmaIrq' = dmaIrq
  BY DEF MSS_HPDMA_start
<1>2. dma \in DmaRecord /\ n \in Nat /\ 0 \in Slots
  BY HpdmaAssumption DEF DmaInv, DmaTypes, Slots
<1>3. /\ dma'.blocks = n /\ dma'.total = n /\ dma'.next = 1 /\ dma'.current_desc = 0
      /\ dma'.end_desc = 0
  BY <1>1, <1>2 DEF DmaRecord
<1>4. DmaTypes'
  <2>1. dma' \in DmaRecord
    <3>1. dma.started + 1 \in Nat /\ "IN_PROGRESS" \in States /\ 1 \in Nat /\ 0 \in Nat
      BY <1>2 DEF DmaRecord, States
    <3> QED BY <1>1, <1>2, <3>1 DEF DmaRecord
  <2>2. copied' \in Seq(Nat)
    BY <1>1
  <2> QED BY <1>1, <2>1, <2>2 DEF DmaInv, DmaTypes
<1>5. ASSUME dmaUpset' = {} PROVE Transfer(0, 0, 0)'
  <2>1. /\ dmaIrq.done = {} /\ \A i \in Slots : ~ring[i].valid /\ ~ring[i].irq
        /\ ~(n > 2 * Descriptors)
    BY <1>5 DEF MSS_HPDMA_start
  <2>2. \A s \in Slots : Occupant(s, 0) = 0
    BY HpdmaAssumption DEF Slots, Occupant
  <2>3. Counts(0, 0, 0)'
    BY <1>2, <1>3, <2>1, HpdmaAssumption DEF Counts
  <2>4. DmaGiven(0, 0, 0)'
    BY <1>1, <2>1, <2>2 DEF DmaGiven
  <2>5. Moved(0)' /\ Filling(0, 0)'
    BY <1>1, <1>3, HpdmaAssumption DEF Moved, Filling
  <2> QED BY <2>3, <2>4, <2>5 DEF Transfer
<1> QED BY <1>4, <1>5 DEF DmaInv

(* The loop of MSS_HPDMA_start gives a descriptor its first block, or is   *)
(* over.                                                                   *)
LEMMA FillInv == ASSUME DmaInv, fill PROVE DmaInv'
<1>1. /\ dmaAt = "fill" /\ dmaIrq' = dmaIrq /\ copied' = copied /\ dmaUpset' = dmaUpset
      /\ DmaTypes
  BY DEF fill, DmaInv
<1>2. dma \in DmaRecord /\ ring \in [Slots -> Descriptor]
  BY <1>1 DEF DmaTypes
<1>3. CASE dma.end_desc < dma.total /\ dma.end_desc < Descriptors
  <2> DEFINE e == dma.end_desc
             given == [valid |-> TRUE, pause |-> FALSE, irq |-> TRUE, block |-> dma.next]
  <2>1. e \in Slots /\ dma.next \in Nat
    BY <1>2, <1>3, HpdmaAssumption DEF DmaRecord, Slots
  <2>2. /\ dma' = IF dma.blocks > 1 THEN [dma EXCEPT !.blocks = @ - 1, !.next = @ + 1]
                                    ELSE [dma EXCEPT !.blocks = 0]
        /\ ring' = [ring EXCEPT ![e] = given] /\ dmaAt' = "count"
    BY <1>3, <2>1 DEF fill, start_transfer
  <2>3. /\ dma'.total = dma.total /\ dma'.current_desc = dma.current_desc /\ dma'.end_desc = e
        /\ dma'.state = dma.state
        /\ dma.blocks > 1 => dma'.blocks = dma.blocks - 1 /\ dma'.next = dma.next + 1
        /\ ~(dma.blocks > 1) => dma'.blocks = 0
    BY <1>2, <2>2 DEF DmaRecord
  <2>4. DmaTypes'
    <3>1. dma' \in DmaRecord
      <4>1. CASE dma.blocks > 1
        <5>1. dma.blocks - 1 \in Nat /\ dma.next + 1 \in Nat
          BY <1>2, <4>1 DEF DmaRecord
        <5> QED BY <1>2, <2>2, <4>1, <5>1 DEF DmaRecord
      <4>2. CASE ~(dma.blocks > 1)
        BY <1>2, <2>2, <4>2 DEF DmaRecord
      <4> QED BY <4>1, <4>2
    <3>2. ring' \in [Slots -> Descriptor]
      BY <1>2, <2>1, <2>2 DEF Descriptor
    <3> QED BY <1>1, <2>2, <3>1, <3>2 DEF DmaTypes
  <2>5. ASSUME dmaUpset = {}, dma.state = "IN_PROGRESS"
        PROVE  \E g, h, m \in Nat : Transfer(g, h, m)'
    <3>1. PICK g, h, m \in Nat : Transfer(g, h, m)
      BY <2>5 DEF DmaInv
    <3>2. h = 0 /\ e = g /\ g < Descriptors /\ g < dma.total /\ m <= g
      BY <1>1, <1>3, <3>1 DEF Transfer, Filling, Counts
    <3>3. dma.total \in Nat /\ dma.blocks = dma.total - g /\ dma.next = g + 1 /\ Descriptors \in Nat \ {0}
      BY <1>2, <3>1, <3>2, HpdmaAssumption DEF Transfer, Counts, DmaRecord
    <3> HIDE DEF e
    <3>4. \A s \in Slots : Occupant(s, g + 1) = IF s = e THEN g + 1 ELSE Occupant(s, g)
      BY <3>2, <3>3 DEF Occupant, Slots
    <3>5. \A s \in Slots : s # e => ring'[s] = ring[s]
      BY <1>2, <2>2
    <3>6. ring'[e].valid /\ ring'[e].irq /\ ring'[e].block = g + 1
      BY <1>2, <2>1, <2>2, <3>3
    <3>7. Occupant(e, g) = 0
      BY <3>2, <3>3 DEF Occupant
    <3>8. DmaGiven(g + 1, h, m)'
      <4>1. \A s \in Slots : ring'[s].valid <=> Occupant(s, g + 1) > m
        BY <3>1, <3>2, <3>4, <3>5, <3>6 DEF Transfer, DmaGiven
      <4>2. \A s \in Slots : ring'[s].irq <=> Occupant(s, g + 1) > h
        BY <3>1, <3>2, <3>4, <3>5, <3>6 DEF Transfer, DmaGiven
      <4>3. \A s \in Slots : Occupant(s, g + 1) > 0 => ring'[s].block = Occupant(s, g + 1)
        BY <3>1, <3>4, <3>5, <3>6 DEF Transfer, DmaGiven
      <4>4. \A s \in Slots :
              s \in dmaIrq'.done <=> h < Occupant(s, g + 1) /\ Occupant(s, g + 1) <= m
        BY <1>1, <3>1, <3>2, <3>4, <3>7 DEF Transfer, DmaGiven
      <4> QED BY <4>1, <4>2, <4>3, <4>4 DEF DmaGiven
    <3>9. Counts(g + 1, h, m)'
      BY <2>3, <3>1, <3>2, <3>3 DEF Transfer, Counts
    <3>10. Moved(m)' /\ Filling(g + 1, h)'
      BY <1>1, <2>2, <2>3, <3>1, <3>2, <3>3 DEF Transfer, Moved, Filling, e
    <3>11. g + 1 \in Nat
      OBVIOUS
    <3> QED BY <3>8, <3>9, <3>10, <3>11 DEF Transfer
  <2> QED BY <1>1, <2>3, <2>4, <2>5 DEF DmaInv
<1>4. CASE ~(dma.end_desc < dma.total /\ dma.end_desc < Descriptors)
  <2>1. dma' = dma /\ ring' = ring /\ dmaAt' = "free"
    BY <1>4 DEF fill
  <2>2. DmaTypes'
    BY <1>1, <2>1 DEF DmaTypes
  <2>3. ASSUME dmaUpset = {}, dma.state = "IN_PROGRESS"
        PROVE  \E g, h, m \in Nat : Transfer(g, h, m)'
    <3>1. PICK g, h, m \in Nat : Transfer(g, h, m)
      BY <2>3 DEF DmaInv
    <3>2. /\ h = 0 /\ dma.end_desc = g /\ g <= Descriptors /\ g <= dma.total
          /\ ~(g < dma.total /\ g < Descriptors)
      BY <1>1, <1>4, <3>1 DEF Transfer, Filling, Counts
    <3>3. Filling(g, h)'
      BY <1>2, <2>1, <3>2, HpdmaAssumption DEF Filling, DmaRecord
    <3>4. Counts(g, h, m)' /\ Moved(m)' /\ DmaGiven(g, h, m)'
      BY <1>1, <2>1, <3>1 DEF Transfer, Counts, Moved, DmaGiven
    <3> QED BY <3>3, <3>4 DEF Transfer
  <2> QED BY <1>1, <2>1, <2>2, <2>3 DEF DmaInv
<1> QED BY <1>3, <1>4

(* It counts what it gave.                                                 *)
LEMMA CountDmaInv == ASSUME DmaInv, count PROVE DmaInv'
<1>1. /\ dmaAt = "count" /\ dma' = [dma EXCEPT !.end_desc = @ + 1] /\ dmaAt' = "fill"
      /\ ring' = ring /\ dmaIrq' = dmaIrq /\ copied' = copied /\ dmaUpset' = dmaUpset
      /\ DmaTypes /\ dma \in DmaRecord
  BY DEF count, DmaInv, DmaTypes
<1>2. /\ dma'.total = dma.total /\ dma'.blocks = dma.blocks /\ dma'.next = dma.next
      /\ dma'.current_desc = dma.current_desc /\ dma'.end_desc = dma.end_desc + 1
      /\ dma'.state = dma.state /\ dma.end_desc \in Nat
  BY <1>1 DEF DmaRecord
<1>3. dma' \in DmaRecord
  BY <1>1 DEF DmaRecord
<1>4. ASSUME NEW g \in Nat, NEW h \in Nat, NEW m \in Nat, Transfer(g, h, m)
      PROVE  Transfer(g, h, m)'
  <2>1. Counts(g, h, m)' /\ Moved(m)' /\ DmaGiven(g, h, m)'
    BY <1>1, <1>2, <1>4 DEF Transfer, Counts, Moved, DmaGiven
  <2>2. Filling(g, h)'
    BY <1>1, <1>2, <1>4 DEF Transfer, Filling
  <2> QED BY <2>1, <2>2 DEF Transfer
<1> QED BY <1>1, <1>2, <1>3, <1>4 DEF DmaInv, DmaTypes

(* A descriptor is paused or resumed.                                      *)
LEMMA PauseInv == ASSUME DmaInv, NEW on \in BOOLEAN, Pause(on) PROVE DmaInv'
<1>1. /\ ring' = [ring EXCEPT ![dma.current_desc].pause = on]
      /\ dma' = dma /\ dmaIrq' = dmaIrq /\ dmaAt' = dmaAt /\ copied' = copied
      /\ dmaUpset' = dmaUpset /\ DmaTypes /\ ring \in [Slots -> Descriptor]
  BY DEF Pause, DmaInv, DmaTypes
<1>2. ring' \in [Slots -> Descriptor]
  BY <1>1 DEF Descriptor
<1>3. \A s \in Slots : /\ ring'[s].valid = ring[s].valid /\ ring'[s].irq = ring[s].irq
                       /\ ring'[s].block = ring[s].block
  BY <1>1 DEF Descriptor
<1>4. ASSUME NEW g \in Nat, NEW h \in Nat, NEW m \in Nat, Transfer(g, h, m)
      PROVE  Transfer(g, h, m)'
  <2>1. Counts(g, h, m)' /\ Moved(m)' /\ Filling(g, h)'
    BY <1>1, <1>4 DEF Transfer, Counts, Moved, Filling
  <2>2. DmaGiven(g, h, m)'
    BY <1>1, <1>3, <1>4 DEF Transfer, DmaGiven
  <2> QED BY <2>1, <2>2 DEF Transfer
<1> QED BY <1>1, <1>2, <1>4 DEF DmaInv, DmaTypes

LEMMA ClearedRing == [i \in Slots |-> Cleared] \in [Slots -> Descriptor]
BY DEF Cleared, Descriptor

LEMMA AbortInv == ASSUME DmaInv, MSS_HPDMA_abort PROVE DmaInv'
<1>1. /\ dma' = [dma EXCEPT !.state = "COMPLETED"] /\ ring' = [i \in Slots |-> Cleared]
      /\ dmaIrq' = dmaIrq /\ dmaAt' = dmaAt /\ copied' = copied /\ dmaUpset' # {}
  BY DEF MSS_HPDMA_abort
<1>2. dma' \in DmaRecord
  BY <1>1 DEF DmaInv, DmaTypes, DmaRecord, States
<1> QED BY <1>1, <1>2, ClearedRing DEF DmaInv, DmaTypes

LEMMA ErrorInv ==
  ASSUME DmaInv, NEW kind \in HpdmaErrors, HPDMA_Error_IRQHandler(kind)
  PROVE  DmaInv'
<1>1. /\ dma' = [dma EXCEPT !.state = kind] /\ ring' = [i \in Slots |-> Cleared]
      /\ dmaIrq' = [done |-> {}, error |-> FALSE] /\ dmaAt' = dmaAt /\ copied' = copied
  BY DEF HPDMA_Error_IRQHandler
<1>2. dma' \in DmaRecord /\ dma'.state # "IN_PROGRESS"
  BY <1>1 DEF DmaInv, DmaTypes, DmaRecord, States, HpdmaErrors
<1> QED BY <1>1, <1>2, ClearedRing DEF DmaInv, DmaTypes

(* The controller stops; the error is pending.                             *)
LEMMA FailInv == ASSUME DmaInv, NEW i \in Slots, fail(i) PROVE DmaInv'
<1>1. /\ dmaIrq' = [dmaIrq EXCEPT !.error = TRUE] /\ dma' = dma /\ ring' = ring
      /\ dmaAt' = dmaAt /\ copied' = copied /\ dmaUpset' = dmaUpset
      /\ dmaIrq \in [done : SUBSET Slots, error : BOOLEAN]
  BY DEF fail, DmaInv, DmaTypes
<1>2. dmaIrq' \in [done : SUBSET Slots, error : BOOLEAN] /\ dmaIrq'.done = dmaIrq.done
  BY <1>1
<1>3. ASSUME NEW g \in Nat, NEW h \in Nat, NEW m \in Nat, Transfer(g, h, m)
      PROVE  Transfer(g, h, m)'
  <2>1. Counts(g, h, m)' /\ Moved(m)' /\ Filling(g, h)' /\ DmaGiven(g, h, m)'
    BY <1>1, <1>2, <1>3 DEF Transfer, Counts, Moved, Filling, DmaGiven
  <2> QED BY <2>1 DEF Transfer
<1> QED BY <1>1, <1>2, <1>3 DEF DmaInv, DmaTypes

(* Different descriptors hold different blocks.                            *)
LEMMA OccupantUnique ==
  ASSUME NEW g \in Nat, g <= 2 * Descriptors, NEW s \in Slots, NEW t \in Slots,
         Occupant(s, g) = Occupant(t, g), Occupant(s, g) > 0
  PROVE  s = t
BY HpdmaAssumption DEF Occupant, Slots

(* What is left to be handled is in a ring of blocks.                      *)
LEMMA OccupantOf ==
  ASSUME NEW g \in Nat, g <= 2 * Descriptors, NEW b \in Nat, 1 <= b, b <= g, g <= b + Descriptors - 1
  PROVE  LET s == IF b <= Descriptors THEN b - 1 ELSE b - Descriptors - 1
         IN  s \in Slots /\ Occupant(s, g) = b
BY HpdmaAssumption DEF Occupant, Slots

(* The controller moves the block given first of those not moved.          *)
LEMMA MoveInv == ASSUME DmaInv, NEW i \in Slots, move(i) PROVE DmaInv'
<1>1. /\ copied' = Append(copied, ring[i].block)
      /\ ring' = [ring EXCEPT ![i].valid = FALSE]
      /\ dmaIrq' = [dmaIrq EXCEPT !.done = @ \cup {i}]
      /\ dma' = dma /\ dmaAt' = dmaAt /\ dmaUpset' = dmaUpset
      /\ DmaTypes /\ ring \in [Slots -> Descriptor]
      /\ dmaIrq \in [done : SUBSET Slots, error : BOOLEAN] /\ copied \in Seq(Nat)
      /\ dma \in DmaRecord
  BY DEF move, DmaInv, DmaTypes
<1>2. /\ ring[i].valid
      /\ \A j \in Slots : ring[j].valid => ring[i].block <= ring[j].block
  BY DEF move, Serves
<1>3. ring[i].block \in Nat
  BY <1>1 DEF Descriptor
<1>4. /\ \A s \in Slots : /\ ring'[s].irq = ring[s].irq /\ ring'[s].block = ring[s].block
      /\ \A s \in Slots : s # i => ring'[s].valid = ring[s].valid
      /\ ~ring'[i].valid
      /\ ring' \in [Slots -> Descriptor]
  BY <1>1 DEF Descriptor
<1>5. dmaIrq'.done = dmaIrq.done \cup {i} /\ dmaIrq' \in [done : SUBSET Slots, error : BOOLEAN]
  BY <1>1
<1>6. /\ copied' \in Seq(Nat) /\ Len(copied') = Len(copied) + 1
      /\ \A k \in 1..Len(copied) : copied'[k] = copied[k]
      /\ copied'[Len(copied) + 1] = ring[i].block
  BY <1>1, <1>3, AppendProperties
<1>7. DmaTypes'
  BY <1>1, <1>4, <1>5, <1>6 DEF DmaTypes
<1>8. ASSUME NEW g \in Nat, NEW h \in Nat, NEW m \in Nat, Transfer(g, h, m)
      PROVE  Transfer(g, h, m + 1)' /\ m + 1 \in Nat
  <2>1. /\ h <= m /\ m <= g /\ g <= dma.total /\ dma.total <= 2 * Descriptors /\ dma.total \in Nat
        /\ Descriptors \in Nat \ {0}
    BY <1>1, <1>8, HpdmaAssumption DEF Transfer, Counts, DmaRecord
  <2>2. g <= Descriptors + h
    BY <1>1, <1>8, <2>1 DEF Transfer, Filling, DmaTypes
  <2>3. Occupant(i, g) > m /\ ring[i].block = Occupant(i, g) /\ Occupant(i, g) <= g
    <3>1. Occupant(i, g) > m
      BY <1>2, <1>8 DEF Transfer, DmaGiven
    <3>2. Occupant(i, g) > 0 => ring[i].block = Occupant(i, g)
      BY <1>8 DEF Transfer, DmaGiven
    <3>3. Occupant(i, g) \in Nat /\ Occupant(i, g) <= g
      BY <2>1 DEF Occupant, Slots
    <3> QED BY <3>1, <3>2, <3>3
  <2>4. m + 1 <= g
    BY <2>3, <2>1 DEF Occupant, Slots
  <2>5. PICK s \in Slots : Occupant(s, g) = m + 1
    <3>1. g <= (m + 1) + Descriptors - 1 /\ 1 <= m + 1 /\ m + 1 \in Nat /\ g <= 2 * Descriptors
      BY <2>1, <2>2
    <3> QED BY <2>4, <3>1, OccupantOf
  <2>6. Occupant(i, g) = m + 1
    <3>1. ring[s].valid
      BY <1>8, <2>5 DEF Transfer, DmaGiven
    <3>2. ring[s].block = m + 1
      BY <1>8, <2>5 DEF Transfer, DmaGiven
    <3>3. ring[i].block <= m + 1
      BY <1>2, <3>1, <3>2
    <3>4. Occupant(i, g) \in Nat
      BY <2>1 DEF Occupant, Slots
    <3> QED BY <2>3, <3>3, <3>4
  <2>7. \A t \in Slots : Occupant(t, g) = m + 1 => t = i
    BY <2>1, <2>6, OccupantUnique
  <2>8. \A t \in Slots : Occupant(t, g) \in Nat
    BY <2>1 DEF Occupant, Slots
  <2>9. DmaGiven(g, h, m + 1)'
    <3>1. \A t \in Slots : ring'[t].valid <=> Occupant(t, g) > m + 1
      <4> SUFFICES ASSUME NEW t \in Slots PROVE ring'[t].valid <=> Occupant(t, g) > m + 1
        OBVIOUS
      <4>1. ring[t].valid <=> Occupant(t, g) > m
        BY <1>8 DEF Transfer, DmaGiven
      <4>2. CASE t = i
        BY <1>4, <2>6, <4>2
      <4>3. CASE t # i
        <5>1. Occupant(t, g) # m + 1
          BY <2>7, <4>3
        <5>2. Occupant(t, g) > m <=> Occupant(t, g) > m + 1
          BY <2>8, <5>1
        <5> QED BY <1>4, <4>1, <4>3, <5>2
      <4> QED BY <4>2, <4>3
    <3>2. /\ \A t \in Slots : ring'[t].irq <=> Occupant(t, g) > h
          /\ \A t \in Slots : Occupant(t, g) > 0 => ring'[t].block = Occupant(t, g)
      BY <1>4, <1>8 DEF Transfer, DmaGiven
    <3>3. \A t \in Slots : t \in dmaIrq'.done <=> h < Occupant(t, g) /\ Occupant(t, g) <= m + 1
      <4> SUFFICES ASSUME NEW t \in Slots
                   PROVE  t \in dmaIrq'.done <=> h < Occupant(t, g) /\ Occupant(t, g) <= m + 1
        OBVIOUS
      <4>1. t \in dmaIrq.done <=> h < Occupant(t, g) /\ Occupant(t, g) <= m
        BY <1>8 DEF Transfer, DmaGiven
      <4>2. Occupant(t, g) <= m + 1 <=> Occupant(t, g) <= m \/ t = i
        BY <2>6, <2>7, <2>8
      <4>3. t = i => h < Occupant(t, g)
        BY <2>1, <2>6
      <4>4. t \in dmaIrq'.done <=> t \in dmaIrq.done \/ t = i
        BY <1>5
      <4> QED BY <4>1, <4>2, <4>3, <4>4
    <3> QED BY <3>1, <3>2, <3>3 DEF DmaGiven
  <2>10. Counts(g, h, m + 1)'
    BY <1>1, <1>8, <2>4 DEF Transfer, Counts
  <2>11. Moved(m + 1)'
    <3>1. Len(copied) = m /\ \A k \in 1..m : copied[k] = k
      BY <1>8 DEF Transfer, Moved
    <3>2. copied'[m + 1] = m + 1
      BY <1>6, <2>3, <2>6, <3>1
    <3>3. \A k \in 1..(m + 1) : k \in 1..m \/ k = m + 1
      OBVIOUS
    <3> QED BY <1>6, <3>1, <3>2, <3>3 DEF Moved
  <2>12. Filling(g, h)'
    BY <1>1, <1>8 DEF Transfer, Filling
  <2> QED BY <2>9, <2>10, <2>11, <2>12 DEF Transfer
<1> QED BY <1>1, <1>7, <1>8 DEF DmaInv

----------------------------------------------------------------------------
(* The completion handler. *)

Following(cur) == IF cur + 1 = Descriptors THEN 0 ELSE cur + 1

LEMMA FollowingSlot == ASSUME NEW cur \in Slots PROVE Following(cur) \in Slots
BY HpdmaAssumption DEF Following, Slots

(* The handler gives the descriptor another block, or sees whether one is  *)
(* left.                                                                   *)
LEMMA HandlerSteps ==
  ASSUME DmaTypes, HPDMA_Complete_IRQHandler
  PROVE  LET cur  == dma.current_desc
             next == Following(cur)
             off  == [ring EXCEPT ![cur].irq = FALSE]
             e    == Refilled(dma)
         IN  /\ dma.blocks > 0 =>
                  /\ dma' = IF dma.blocks > 1
                            THEN [dma EXCEPT !.current_desc = next, !.end_desc = e,
                                             !.blocks = dma.blocks - 1, !.next = dma.next + 1]
                            ELSE [dma EXCEPT !.current_desc = next, !.end_desc = e, !.blocks = 0]
                  /\ ring' = IF e \in Slots
                             THEN [off EXCEPT ![e] = [valid |-> TRUE, pause |-> FALSE,
                                                      irq |-> TRUE, block |-> dma.next]]
                             ELSE off
             /\ ~(dma.blocks > 0) =>
                  /\ ring' = off
                  /\ dma' = IF off[next].irq THEN [dma EXCEPT !.current_desc = next]
                            ELSE [dma EXCEPT !.current_desc = 0, !.end_desc = 0,
                                             !.state = "COMPLETED"]
<1> DEFINE cur  == dma.current_desc
           next == Following(cur)
           off  == [ring EXCEPT ![cur].irq = FALSE]
           e    == Refilled(dma)
           d    == [dma EXCEPT !.current_desc = next]
           d2   == [d EXCEPT !.end_desc = e]
<1>1. dma \in DmaRecord
  BY DEF DmaTypes
<1>2. d2 = [dma EXCEPT !.current_desc = next, !.end_desc = e]
  BY <1>1 DEF DmaRecord
<1>3. d2.blocks = dma.blocks /\ d2.next = dma.next /\ d2.end_desc = e
  BY <1>1 DEF DmaRecord
<1>4. CASE dma.blocks > 0
  <2>1. dma' = start_transfer(d2, off).dma /\ ring' = start_transfer(d2, off).ring
    BY <1>4 DEF HPDMA_Complete_IRQHandler, Following
  <2>2. ring' = IF e \in Slots
                THEN [off EXCEPT ![e] = [valid |-> TRUE, pause |-> FALSE, irq |-> TRUE,
                                         block |-> dma.next]]
                ELSE off
    BY <1>3, <2>1 DEF start_transfer
  <2>3. dma' = IF dma.blocks > 1
               THEN [d2 EXCEPT !.blocks = dma.blocks - 1, !.next = dma.next + 1]
               ELSE [d2 EXCEPT !.blocks = 0]
    BY <1>3, <2>1 DEF start_transfer
  <2>4. /\ [d2 EXCEPT !.blocks = dma.blocks - 1, !.next = dma.next + 1] =
              [dma EXCEPT !.current_desc = next, !.end_desc = e,
                          !.blocks = dma.blocks - 1, !.next = dma.next + 1]
        /\ [d2 EXCEPT !.blocks = 0] =
              [dma EXCEPT !.current_desc = next, !.end_desc = e, !.blocks = 0]
    BY <1>1 DEF DmaRecord
  <2> QED BY <1>4, <2>2, <2>3, <2>4
<1>5. CASE ~(dma.blocks > 0)
  <2>1. ring' = off
        /\ dma' = IF off[next].irq THEN d
                  ELSE [d EXCEPT !.current_desc = 0, !.end_desc = 0, !.state = "COMPLETED"]
    BY <1>5 DEF HPDMA_Complete_IRQHandler, Following
  <2>2. [d EXCEPT !.current_desc = 0, !.end_desc = 0, !.state = "COMPLETED"] =
          [dma EXCEPT !.current_desc = 0, !.end_desc = 0, !.state = "COMPLETED"]
    BY <1>1 DEF DmaRecord
  <2> QED BY <1>5, <2>1, <2>2
<1> QED BY <1>4, <1>5

LEMMA HandlerTypes == ASSUME DmaTypes, HPDMA_Complete_IRQHandler PROVE DmaTypes'
<1> DEFINE cur  == dma.current_desc
           next == Following(cur)
           off  == [ring EXCEPT ![cur].irq = FALSE]
           e    == Refilled(dma)
<1>1. /\ dma \in DmaRecord /\ ring \in [Slots -> Descriptor] /\ cur \in Slots
      /\ dma.blocks \in Nat /\ dma.next \in Nat /\ dma.end_desc \in Nat
  BY DEF DmaTypes, DmaRecord
<1>2. next \in Slots /\ 0 \in Slots /\ "COMPLETED" \in States
  <2>1. next \in Slots
    BY <1>1, FollowingSlot
  <2>2. 0 \in Slots
    BY HpdmaAssumption DEF Slots
  <2> QED BY <2>1, <2>2 DEF States
<1>3. e \in Nat
  BY <1>1 DEF Refilled
<1>4. off \in [Slots -> Descriptor]
  BY <1>1 DEF Descriptor
<1>5. /\ dmaAt' = dmaAt /\ copied' = copied
      /\ dmaIrq' = [dmaIrq EXCEPT !.done = @ \ {cur}]
  BY DEF HPDMA_Complete_IRQHandler
<1>6. dmaIrq' \in [done : SUBSET Slots, error : BOOLEAN]
  BY <1>5 DEF DmaTypes
<1>7. CASE dma.blocks > 0
  <2> HIDE DEF off, next, e, cur
  <2>1. dma' = IF dma.blocks > 1
               THEN [dma EXCEPT !.current_desc = next, !.end_desc = e,
                                !.blocks = dma.blocks - 1, !.next = dma.next + 1]
               ELSE [dma EXCEPT !.current_desc = next, !.end_desc = e, !.blocks = 0]
    BY <1>7, HandlerSteps DEF off, next, e, cur
  <2>2. ring' = IF e \in Slots
                THEN [off EXCEPT ![e] = [valid |-> TRUE, pause |-> FALSE, irq |-> TRUE,
                                         block |-> dma.next]]
                ELSE off
    BY <1>7, HandlerSteps DEF off, next, e, cur
  <2>3. dma' \in DmaRecord
    <3>1. CASE dma.blocks > 1
      <4>1. dma.blocks - 1 \in Nat /\ dma.next + 1 \in Nat
        BY <1>1, <3>1
      <4> QED BY <1>1, <1>2, <1>3, <2>1, <3>1, <4>1 DEF DmaRecord
    <3>2. CASE ~(dma.blocks > 1)
      BY <1>1, <1>2, <1>3, <2>1, <3>2 DEF DmaRecord
    <3> QED BY <3>1, <3>2
  <2>4. ring' \in [Slots -> Descriptor]
    BY <1>1, <1>4, <2>2 DEF Descriptor
  <2> QED BY <1>5, <1>6, <2>3, <2>4 DEF DmaTypes
<1>8. CASE ~(dma.blocks > 0)
  <2>1. /\ ring' = off
        /\ dma' = IF off[next].irq THEN [dma EXCEPT !.current_desc = next]
                  ELSE [dma EXCEPT !.current_desc = 0, !.end_desc = 0, !.state = "COMPLETED"]
    BY <1>8, HandlerSteps
  <2> HIDE DEF off, next
  <2>2. dma' \in DmaRecord
    BY <1>1, <1>2, <2>1 DEF DmaRecord
  <2> QED BY <1>4, <1>5, <1>6, <2>1, <2>2 DEF DmaTypes
<1> QED BY <1>7, <1>8

(* The blocks that were moved, as the history tells them.                  *)
LEMMA CopiedAll ==
  ASSUME copied \in Seq(Nat), NEW m \in Nat, Moved(m), NEW n \in Nat
  PROVE  copied = [i \in 1..n |-> i] <=> m = n
<1>1. copied \in [1..m -> Nat] /\ Len(copied) = m
  BY LenProperties DEF Moved
<1>2. copied = [i \in 1..m |-> i]
  BY <1>1 DEF Moved
<1>3. ASSUME copied = [i \in 1..n |-> i] PROVE m = n
  <2>1. DOMAIN copied = 1..n /\ DOMAIN copied = 1..m
    BY <1>1, <1>3
  <2>2. n \in 1..n \/ n = 0
    OBVIOUS
  <2>3. m \in 1..m \/ m = 0
    OBVIOUS
  <2>4. n <= m
    BY <2>1, <2>2
  <2>5. m <= n
    BY <2>1, <2>3
  <2> QED BY <2>4, <2>5
<1> QED BY <1>2, <1>3

(* An interrupt of a transfer that met nothing the driver does not cope    *)
(* with is that of the block moved first of those not handled; it starts   *)
(* another block, waits for the next, or completes the transfer.           *)
LEMMA HandlerInv ==
  ASSUME DmaInv, HPDMA_Complete_IRQHandler, dmaUpset' = {}
  PROVE  /\ dma'.state = "IN_PROGRESS" => \E g, h, m \in Nat : Transfer(g, h, m)'
         /\ dma'.state = "COMPLETED" <=>
              copied = [i \in 1..dma.total |-> i] /\ dmaIrq'.done = {}
<1> DEFINE cur  == dma.current_desc
           next == Following(cur)
           off  == [ring EXCEPT ![cur].irq = FALSE]
           e    == Refilled(dma)
<1>1. /\ dmaAt = "free" /\ dmaUpset = {} /\ dma.state = "IN_PROGRESS"
      /\ dmaAt' = dmaAt /\ copied' = copied /\ dmaIrq.done # {}
      /\ dmaIrq' = [dmaIrq EXCEPT !.done = @ \ {cur}]
  BY DEF HPDMA_Complete_IRQHandler
<1>2. /\ dma \in DmaRecord /\ ring \in [Slots -> Descriptor] /\ cur \in Slots
      /\ dmaIrq \in [done : SUBSET Slots, error : BOOLEAN] /\ copied \in Seq(Nat)
      /\ DmaTypes
  BY DEF DmaInv, DmaTypes, DmaRecord
<1>3. PICK g, h, m \in Nat : Transfer(g, h, m)
  BY <1>1 DEF DmaInv
<1>4. /\ dma.total \in Nat /\ dma.total <= 2 * Descriptors /\ h <= m /\ m <= g
      /\ g <= dma.total /\ h < dma.total /\ dma.blocks = dma.total - g
      /\ g < dma.total => dma.next = g + 1
      /\ cur = IF h < Descriptors THEN h ELSE h - Descriptors
      /\ g = IF dma.total <= Descriptors + h THEN dma.total ELSE Descriptors + h
      /\ dma.total > Descriptors =>
           dma.end_desc = IF g = Descriptors THEN Descriptors ELSE g - Descriptors - 1
      /\ Descriptors \in Nat \ {0}
  BY <1>1, <1>2, <1>3, HpdmaAssumption DEF Transfer, Counts, Filling, DmaRecord
<1>5. \A s \in Slots : Occupant(s, g) \in Nat /\ Occupant(s, g) <= g
  BY <1>4 DEF Occupant, Slots
<1>6. h + 1 <= m
  <2>1. PICK t \in Slots : t \in dmaIrq.done
    BY <1>1, <1>2
  <2>2. h < Occupant(t, g) /\ Occupant(t, g) <= m
    BY <1>3, <2>1 DEF Transfer, DmaGiven
  <2> QED BY <1>5, <2>2
<1>7. Occupant(cur, g) = h + 1
  <2>1. cur = IF h + 1 <= Descriptors THEN (h + 1) - 1 ELSE (h + 1) - Descriptors - 1
    BY <1>4
  <2>2. h + 1 \in Nat /\ 1 <= h + 1 /\ h + 1 <= g /\ g <= (h + 1) + Descriptors - 1
        /\ g <= 2 * Descriptors
    BY <1>4, <1>6
  <2> HIDE DEF cur
  <2> QED BY <2>1, <2>2, OccupantOf
<1>8. \A s \in Slots : s # cur => Occupant(s, g) # h + 1
  BY <1>2, <1>4, <1>7, OccupantUnique
<1>9. \A s \in Slots : s \in dmaIrq'.done <=> h + 1 < Occupant(s, g) /\ Occupant(s, g) <= m
  <2> SUFFICES ASSUME NEW s \in Slots
               PROVE  s \in dmaIrq'.done <=> h + 1 < Occupant(s, g) /\ Occupant(s, g) <= m
    OBVIOUS
  <2>1. s \in dmaIrq.done <=> h < Occupant(s, g) /\ Occupant(s, g) <= m
    BY <1>3 DEF Transfer, DmaGiven
  <2>2. s \in dmaIrq'.done <=> s \in dmaIrq.done /\ s # cur
    BY <1>1, <1>2
  <2>3. h + 1 < Occupant(s, g) <=> h < Occupant(s, g) /\ s # cur
    BY <1>5, <1>7, <1>8
  <2> QED BY <2>1, <2>2, <2>3
<1>10. \A s \in Slots : /\ off[s].irq <=> Occupant(s, g) > h + 1
                        /\ off[s].valid <=> Occupant(s, g) > m
                        /\ Occupant(s, g) > 0 => off[s].block = Occupant(s, g)
  <2> SUFFICES ASSUME NEW s \in Slots
               PROVE  /\ off[s].irq <=> Occupant(s, g) > h + 1
                      /\ off[s].valid <=> Occupant(s, g) > m
                      /\ Occupant(s, g) > 0 => off[s].block = Occupant(s, g)
    OBVIOUS
  <2>1. /\ off[s].valid = ring[s].valid /\ off[s].block = ring[s].block
        /\ s # cur => off[s].irq = ring[s].irq
        /\ ~off[cur].irq
    BY <1>2 DEF Descriptor
  <2> HIDE DEF off, cur
  <2>2. /\ off[s].valid <=> Occupant(s, g) > m
        /\ Occupant(s, g) > 0 => off[s].block = Occupant(s, g)
    BY <1>3, <2>1 DEF Transfer, DmaGiven
  <2>3. off[s].irq <=> Occupant(s, g) > h + 1
    <3>1. CASE s = cur
      <4>1. ~(Occupant(s, g) > h + 1)
        BY <1>7, <3>1
      <4> QED BY <2>1, <3>1, <4>1
    <3>2. CASE s # cur
      <4>1. ring[s].irq <=> Occupant(s, g) > h
        BY <1>3 DEF Transfer, DmaGiven
      <4>2. Occupant(s, g) > h <=> Occupant(s, g) > h + 1
        BY <1>5, <1>8, <3>2
      <4> QED BY <2>1, <3>2, <4>1, <4>2
    <3> QED BY <3>1, <3>2
  <2> QED BY <2>2, <2>3
<1>11. Moved(m)' /\ (copied = [i \in 1..dma.total |-> i] <=> m = dma.total)
  BY <1>1, <1>2, <1>3, <1>4, CopiedAll DEF Transfer, Moved
<1>12. CASE dma.blocks > 0
  <2>1. g < dma.total /\ g = Descriptors + h /\ h < Descriptors /\ cur = h
    BY <1>4, <1>12
  <2>2. e = h /\ e \in Slots
    BY <1>2, <1>4, <2>1 DEF Refilled, Slots
  <2> HIDE DEF off, e, next
  <2>3. dma' = IF dma.blocks > 1
               THEN [dma EXCEPT !.current_desc = next, !.end_desc = e,
                                !.blocks = dma.blocks - 1, !.next = dma.next + 1]
               ELSE [dma EXCEPT !.current_desc = next, !.end_desc = e, !.blocks = 0]
    BY <1>2, <1>12, HandlerSteps DEF next, e
  <2>4. ring' = [off EXCEPT ![e] = [valid |-> TRUE, pause |-> FALSE, irq |-> TRUE,
                                    block |-> dma.next]]
    BY <1>2, <1>12, <2>2, HandlerSteps DEF off, e
  <2>5. /\ dma'.total = dma.total /\ dma'.current_desc = next /\ dma'.end_desc = h
        /\ dma'.state = "IN_PROGRESS" /\ dma'.blocks = dma.blocks - 1
        /\ dma.blocks > 1 => dma'.next = dma.next + 1
    <3>1. /\ dma'.total = dma.total /\ dma'.current_desc = next /\ dma'.end_desc = e
          /\ dma'.state = dma.state
          /\ dma.blocks > 1 => dma'.next = dma.next + 1 /\ dma'.blocks = dma.blocks - 1
          /\ ~(dma.blocks > 1) => dma'.blocks = 0
      BY <1>2, <2>3 DEF DmaRecord
    <3>2. ~(dma.blocks > 1) => dma.blocks - 1 = 0
      BY <1>4, <1>12
    <3> QED BY <1>1, <2>2, <3>1, <3>2
  <2>6. \A s \in Slots : Occupant(s, g + 1) = IF s = h THEN g + 1 ELSE Occupant(s, g)
    BY <1>4, <2>1 DEF Occupant, Slots
  <2>7. DmaGiven(g + 1, h + 1, m)'
    <3>1. off \in [Slots -> Descriptor]
      BY <1>2 DEF off, Descriptor
    <3>2. /\ ring'[h].valid /\ ring'[h].irq /\ ring'[h].block = g + 1
          /\ \A s \in Slots : s # h => ring'[s] = off[s]
      BY <1>4, <2>1, <2>2, <2>4, <3>1
    <3>3. g + 1 > m /\ g + 1 > h + 1
      BY <1>4, <2>1
    <3>4. \A s \in Slots : ring'[s].valid <=> Occupant(s, g + 1) > m
      BY <1>10, <2>6, <3>2, <3>3
    <3>5. \A s \in Slots : ring'[s].irq <=> Occupant(s, g + 1) > h + 1
      BY <1>10, <2>6, <3>2, <3>3
    <3>6. \A s \in Slots : Occupant(s, g + 1) > 0 => ring'[s].block = Occupant(s, g + 1)
      BY <1>10, <2>6, <3>2
    <3>7. \A s \in Slots :
            s \in dmaIrq'.done <=> h + 1 < Occupant(s, g + 1) /\ Occupant(s, g + 1) <= m
      BY <1>5, <1>7, <1>9, <2>1, <2>6, <3>3
    <3> QED BY <3>4, <3>5, <3>6, <3>7 DEF DmaGiven
  <2>8. Counts(g + 1, h + 1, m)'
    <3>1. next = IF h + 1 < Descriptors THEN h + 1 ELSE (h + 1) - Descriptors
      BY <1>4, <2>1 DEF next, Following
    <3>2. dma'.blocks = dma'.total - (g + 1) /\ (g + 1 < dma'.total => dma'.next = g + 1 + 1)
      BY <1>4, <2>1, <2>5
    <3> QED BY <1>4, <1>6, <2>1, <2>5, <3>1, <3>2 DEF Counts
  <2>9. Filling(g + 1, h + 1)'
    BY <1>1, <1>4, <2>1, <2>5 DEF Filling
  <2>10. g + 1 \in Nat /\ h + 1 \in Nat
    OBVIOUS
  <2>11. m # dma.total
    BY <1>4, <2>1
  <2> QED BY <1>11, <2>5, <2>7, <2>8, <2>9, <2>10, <2>11 DEF Transfer
<1>13. CASE ~(dma.blocks > 0)
  <2>1. g = dma.total
    BY <1>4, <1>13
  <2>2. next \in Slots
    BY <1>2, FollowingSlot
  <2> HIDE DEF off
  <2>3. /\ ring' = off
        /\ dma' = IF off[next].irq THEN [dma EXCEPT !.current_desc = next]
                  ELSE [dma EXCEPT !.current_desc = 0, !.end_desc = 0, !.state = "COMPLETED"]
    BY <1>2, <1>13, HandlerSteps DEF off
  <2>4. CASE h + 1 < dma.total
    <3>1. next = IF (h + 1) + 1 <= Descriptors THEN ((h + 1) + 1) - 1
                 ELSE ((h + 1) + 1) - Descriptors - 1
      BY <1>4, <2>4 DEF Following
    <3>2. next = IF h + 1 < Descriptors THEN h + 1 ELSE (h + 1) - Descriptors
      BY <1>4, <2>4 DEF Following
    <3> HIDE DEF next
    <3>3. Occupant(next, g) = h + 2
      <4>1. h + 2 \in Nat /\ 1 <= h + 2 /\ h + 2 <= g /\ g <= (h + 2) + Descriptors - 1
            /\ g <= 2 * Descriptors
        BY <1>4, <2>1, <2>4
      <4>2. next = IF h + 2 <= Descriptors THEN (h + 2) - 1 ELSE (h + 2) - Descriptors - 1
        BY <1>4, <3>1
      <4> QED BY <4>1, <4>2, OccupantOf
    <3>4. off[next].irq
      <4>1. Occupant(next, g) > h + 1
        BY <3>3
      <4> QED BY <1>10, <2>2, <4>1
    <3>5. /\ dma'.total = dma.total /\ dma'.current_desc = next /\ dma'.end_desc = dma.end_desc
          /\ dma'.state = "IN_PROGRESS" /\ dma'.blocks = dma.blocks /\ dma'.next = dma.next
      BY <1>1, <1>2, <2>3, <3>4 DEF DmaRecord
    <3>6. DmaGiven(g, h + 1, m)'
      BY <1>9, <1>10, <2>3 DEF DmaGiven
    <3>7. Counts(g, h + 1, m)'
      BY <1>4, <1>6, <2>1, <2>4, <3>2, <3>5 DEF Counts
    <3>8. Filling(g, h + 1)'
      BY <1>1, <1>4, <2>1, <3>5 DEF Filling
    <3>9. h + 1 \in Nat
      OBVIOUS
    <3>10. ~(m = dma.total /\ dmaIrq'.done = {})
      <4>1. m = dma.total => next \in dmaIrq'.done
        BY <1>4, <1>9, <2>1, <2>2, <2>4, <3>3
      <4> QED BY <4>1
    <3> QED BY <1>11, <3>5, <3>6, <3>7, <3>8, <3>9, <3>10 DEF Transfer
  <2>5. CASE ~(h + 1 < dma.total)
    <3>1. g = h + 1 /\ m = dma.total
      BY <1>4, <1>6, <2>1, <2>5
    <3> HIDE DEF next
    <3>2. ~off[next].irq
      <4>1. ~(Occupant(next, g) > h + 1)
        BY <1>5, <2>2, <3>1
      <4> QED BY <1>10, <2>2, <4>1
    <3>3. dma'.state = "COMPLETED"
      BY <1>2, <2>3, <3>2 DEF DmaRecord
    <3>4. \A s \in Slots : s \notin dmaIrq'.done
      BY <1>5, <1>9, <3>1
    <3>5. dmaIrq'.done = {}
      BY <1>1, <1>2, <3>4
    <3> QED BY <1>11, <3>1, <3>3, <3>5
  <2> QED BY <2>4, <2>5
<1> QED BY <1>4, <1>12, <1>13

LEMMA StepDmaInv == DmaInv /\ [HpdmaNext]_hpdmaVars => DmaInv'
<1> SUFFICES ASSUME DmaInv, [HpdmaNext]_hpdmaVars PROVE DmaInv'
  OBVIOUS
<1>1. CASE HpdmaCall
  <2>1. ASSUME NEW n \in 1..MaxBlocks, MSS_HPDMA_start(n) PROVE DmaInv'
    BY <2>1, StartInv
  <2>2. CASE MSS_HPDMA_pause
    BY <2>2, PauseInv DEF MSS_HPDMA_pause
  <2>3. CASE MSS_HPDMA_resume
    BY <2>3, PauseInv DEF MSS_HPDMA_resume
  <2> QED BY <1>1, <2>1, <2>2, <2>3, InitCallInv, AbortInv DEF HpdmaCall
<1>2. CASE HPDMA_Complete_IRQHandler
  <2>1. DmaTypes'
    BY <1>2, HandlerTypes DEF DmaInv
  <2> QED BY <1>2, <2>1, HandlerInv DEF DmaInv
<1>3. ASSUME NEW kind \in HpdmaErrors, HPDMA_Error_IRQHandler(kind) PROVE DmaInv'
  BY <1>3, ErrorInv
<1>4. ASSUME NEW i \in Slots, move(i) PROVE DmaInv'
  BY <1>4, MoveInv
<1>5. ASSUME NEW i \in Slots, fail(i) PROVE DmaInv'
  BY <1>5, FailInv
<1>6. CASE UNCHANGED hpdmaVars
  <2>1. DmaTypes'
    BY <1>6 DEF hpdmaVars, DmaInv, DmaTypes
  <2>2. ASSUME NEW g, NEW h, NEW m, Transfer(g, h, m) PROVE Transfer(g, h, m)'
    BY <1>6, <2>2 DEF hpdmaVars, Transfer, Counts, Moved, DmaGiven, Filling
  <2>3. dmaUpset' = dmaUpset /\ dma' = dma
    BY <1>6 DEF hpdmaVars
  <2> QED BY <2>1, <2>2, <2>3 DEF DmaInv
<1> QED BY <1>1, <1>2, <1>3, <1>4, <1>5, <1>6, FillInv, CountDmaInv DEF HpdmaNext, HpdmaIsr

(* The completion handler reports a transfer as complete exactly when each *)
(* of its blocks was moved, in order, and its last interrupt handled, for  *)
(* every number of descriptors and every transfer the ring can take.       *)
THEOREM CompletionIsTrue == HpdmaSpec => CompletedMeansMoved
<1>1. HpdmaInit => DmaInv
  BY InitDmaInv
<1>2. DmaInv /\ [HpdmaNext]_hpdmaVars => DmaInv'
  BY StepDmaInv
<1>3. DmaInv /\ [HpdmaNext]_hpdmaVars =>
        [HPDMA_Complete_IRQHandler /\ dmaUpset' = {} =>
           (dma'.state = "COMPLETED" <=>
              copied = [i \in 1..dma.total |-> i] /\ dmaIrq'.done = {})]_hpdmaVars
  BY HandlerInv
<1> QED BY <1>1, <1>2, <1>3, PTL DEF HpdmaSpec, CompletedMeansMoved

(* What is left of a transfer is no more than was asked for, and unless    *)
(* something went wrong the ring's last descriptor is one of the ring.     *)
DmaRange ==
  /\ dma.blocks \in 0..MaxBlocks
  /\ dmaUpset = {} => /\ dma.end_desc <= Descriptors
                      /\ dmaAt = "count" => dma.end_desc < Descriptors

LEMMA RangeStarts == HpdmaInit => DmaRange
BY HpdmaAssumption DEF HpdmaInit, DmaRange

LEMMA StartTransfer ==
  ASSUME NEW d \in DmaRecord, NEW r
  PROVE  LET s == start_transfer(d, r).dma
         IN  s.end_desc = d.end_desc /\ s.blocks \in Nat /\ s.blocks <= d.blocks
BY DEF start_transfer, DmaRecord

LEMMA RangeSteps == DmaInv /\ DmaRange /\ [HpdmaNext]_hpdmaVars => DmaRange'
<1> SUFFICES ASSUME DmaTypes, DmaRange, [HpdmaNext]_hpdmaVars PROVE DmaRange'
  BY DEF DmaInv
<1>0. /\ dma \in DmaRecord /\ dma.end_desc \in Nat /\ dma.current_desc \in Slots
      /\ Descriptors \in Nat \ {0} /\ MaxBlocks \in Nat /\ dma.blocks \in 0..MaxBlocks
  BY HpdmaAssumption DEF DmaTypes, DmaRecord, DmaRange
<1>1. CASE MSS_HPDMA_init
  BY <1>0, <1>1 DEF MSS_HPDMA_init, DmaRange, DmaRecord
<1>2. ASSUME NEW n \in 1..MaxBlocks, MSS_HPDMA_start(n) PROVE DmaRange'
  BY <1>0, <1>2 DEF MSS_HPDMA_start, DmaRange, DmaRecord
<1>3. CASE fill
  <2>1. CASE dma.end_desc < dma.total /\ dma.end_desc < Descriptors
    <3>1. dma' = start_transfer(dma, ring).dma /\ dmaUpset' = dmaUpset
      BY <1>3, <2>1 DEF fill
    <3>2. dma'.end_desc = dma.end_desc /\ dma'.blocks \in 0..MaxBlocks
      BY <1>0, <3>1, StartTransfer
    <3> QED BY <1>0, <2>1, <3>1, <3>2 DEF DmaRange
  <2>2. CASE ~(dma.end_desc < dma.total /\ dma.end_desc < Descriptors)
    BY <1>3, <2>2 DEF fill, DmaRange
  <2> QED BY <2>1, <2>2
<1>4. CASE count
  BY <1>0, <1>4 DEF count, DmaRange, DmaRecord
<1>5. CASE HPDMA_Complete_IRQHandler
  <2> DEFINE next == IF dma.current_desc + 1 = Descriptors THEN 0 ELSE dma.current_desc + 1
             off  == [ring EXCEPT ![dma.current_desc].irq = FALSE]
             d    == [dma EXCEPT !.current_desc = next]
             f    == [d EXCEPT !.end_desc = Refilled(dma)]
  <2>1. /\ next \in Slots /\ Refilled(dma) \in Nat
        /\ dma.end_desc <= Descriptors => Refilled(dma) <= Descriptors
    BY <1>0 DEF Slots, Refilled
  <2>2. /\ d \in DmaRecord /\ d.end_desc = dma.end_desc /\ d.blocks = dma.blocks
        /\ f \in DmaRecord /\ f.end_desc = Refilled(dma) /\ f.blocks = dma.blocks
    BY <1>0, <2>1 DEF DmaRecord
  <2>3. /\ dmaAt' = dmaAt /\ (dmaUpset' = {} => dmaUpset = {} /\ dmaAt = "free")
        /\ \/ dma' = start_transfer(f, off).dma
           \/ dma' = d \/ dma' = [d EXCEPT !.current_desc = 0, !.end_desc = 0, !.state = "COMPLETED"]
    BY <1>5 DEF HPDMA_Complete_IRQHandler
  <2> HIDE DEF d, f, off, next
  <2>4. CASE dma' = start_transfer(f, off).dma
    <3>1. dma'.end_desc = f.end_desc /\ dma'.blocks \in Nat /\ dma'.blocks <= f.blocks
      BY <2>2, <2>4, StartTransfer
    <3> QED BY <1>0, <2>1, <2>2, <2>3, <3>1 DEF DmaRange
  <2>5. CASE dma' = d
    BY <1>0, <2>2, <2>3, <2>5 DEF DmaRange
  <2>6. CASE dma' = [d EXCEPT !.current_desc = 0, !.end_desc = 0, !.state = "COMPLETED"]
    <3>1. dma'.end_desc = 0 /\ dma'.blocks = d.blocks
      BY <2>2, <2>6 DEF DmaRecord
    <3> QED BY <1>0, <2>2, <2>3, <3>1 DEF DmaRange
  <2> QED BY <2>3, <2>4, <2>5, <2>6
<1>6. ASSUME NEW kind \in HpdmaErrors, HPDMA_Error_IRQHandler(kind) PROVE DmaRange'
  BY <1>0, <1>6 DEF HPDMA_Error_IRQHandler, DmaRange, DmaRecord
<1>7. CASE MSS_HPDMA_abort
  BY <1>0, <1>7 DEF MSS_HPDMA_abort, DmaRange, DmaRecord
<1>8. ASSUME UNCHANGED <<dma, dmaAt, dmaUpset>> PROVE DmaRange'
  BY <1>8 DEF DmaRange
<1>9. CASE MSS_HPDMA_pause \/ MSS_HPDMA_resume
  BY <1>8, <1>9 DEF MSS_HPDMA_pause, MSS_HPDMA_resume, Pause
<1>10. ASSUME NEW i \in Slots, move(i) \/ fail(i) PROVE DmaRange'
  BY <1>8, <1>10 DEF move, fail
<1>11. CASE UNCHANGED hpdmaVars
  BY <1>8, <1>11 DEF hpdmaVars
<1> QED BY <1>1, <1>2, <1>3, <1>4, <1>5, <1>6, <1>7, <1>9, <1>10, <1>11 DEF HpdmaNext, HpdmaCall, HpdmaIsr

(* For every ring and transfer: the descriptor the handler looks at is one *)
(* of the ring, and the last one filled too unless the driver was used in  *)
(* a way it does not cope with.                                            *)
THEOREM DmaAlwaysTyped == HpdmaSpec => []HpdmaTypeOK
<1>1. ASSUME DmaTypes, DmaRange PROVE HpdmaTypeOK
  BY <1>1, HpdmaAssumption DEF DmaTypes, DmaRecord, States, DmaRange, HpdmaTypeOK
<1>2. DmaInv => DmaTypes
  BY DEF DmaInv
<1> QED BY <1>1, <1>2, InitDmaInv, StepDmaInv, RangeStarts, RangeSteps, PTL DEF HpdmaSpec

----------------------------------------------------------------------------
(* The UART.                                                               *)

Octets == Nat \X Nat

UartRecord ==
  [bits : SUBSET ModeBits, ier : SUBSET IerBits, iem : SUBSET IemBits, handler : SUBSET Handlers,
   size : 0..MaxSize, idx : Nat, message : Nat, status : BOOLEAN]
UartCallRecord ==
  [op : {"none", "polled_tx", "fill_tx_fifo", "irq_tx", "get_rx", "tx_complete", "get_rx_status"},
   at : {"free", "index", "lsr", "store", "return"}, left : Nat, char_idx : Nat,
   thre : BOOLEAN, temt : BOOLEAN, dr : BOOLEAN, oe : BOOLEAN, seen : BOOLEAN, result : BOOLEAN]

UartTypes ==
  /\ uart \in UartRecord
  /\ uartTx \in [fifo : Seq(Octets), shift : Seq(Octets), wire : Seq(Octets)]
  /\ Len(uartTx.fifo) <= TxFifoSize
  /\ uartRx \in [held : 0..RxFifoSize, arrived : Nat, overrun : BOOLEAN, lost : BOOLEAN]
  /\ uartCall \in UartCallRecord
  /\ uartAsked \in [messages : Nat, bytes : Seq(Octets)]
  /\ \E p \in Protocols \cup {"none"} : uart.bits \cap Protocols \subseteq {p}

(* What has left the driver, and what it has still to write to the FIFO.   *)
OnLine  == uartTx.wire \o (uartTx.shift \o uartTx.fifo)
PollsTx == uartCall.at \in {"lsr", "store"} /\ uartCall.op \in {"polled_tx", "fill_tx_fifo"}
Position == IF uartCall.at = "index" THEN 0 ELSE uart.idx
ToWrite ==
  IF PollsTx THEN IF uartCall.op = "polled_tx"
                  THEN Bytes(uartAsked.messages, uartCall.char_idx, uartCall.left) ELSE <<>>
  ELSE IF Sending THEN Bytes(uart.message, Position, uart.size - Position) ELSE <<>>

(* A call that polls has the transmitter to itself.                        *)
Uses ==
  /\ uartCall.at = "free" => uartCall = Free
  /\ PollsTx => ~Sending /\ uartCall.left > 0
  /\ PollsTx /\ uartCall.at = "store" /\ uartCall.thre => uartTx.fifo = <<>>

Stream ==
  uartUpset \cap {"index", "reset"} = {} =>
    /\ OnLine \o ToWrite = uartAsked.bytes
    /\ uartCall.at = "index" => "tx" \notin uart.ier /\ Sending
    /\ Sending /\ uartCall.at # "index" => uart.idx <= uart.size

(* The transmitter was empty at the look at LSR, and still is.             *)
Emptied ==
  uartUpset \cap {"index", "reset", "torn"} = {} =>
    /\ uartCall.at = "store" /\ uartCall.op = "tx_complete" /\ uartCall.temt =>
         uartTx.fifo = <<>> /\ uartTx.shift = <<>>
    /\ uartCall.at = "return" /\ uartCall.result =>
         uartTx.fifo = <<>> /\ uartTx.shift = <<>> /\ ~Sending

(* The status field is what the call has loaded of it.                     *)
Sample == uartCall.at = "store" /\ "torn" \notin uartUpset => uartCall.seen = uart.status

UartInv == UartTypes /\ Uses /\ Stream /\ Emptied /\ Sample /\ NoSilentOverrun

----------------------------------------------------------------------------
(* Sequences of bytes.                                                     *)

LEMMA BytesAre ==
  ASSUME NEW m \in Nat, NEW from \in Nat, NEW n \in Nat
  PROVE  /\ Bytes(m, from, n) \in Seq(Octets) /\ Len(Bytes(m, from, n)) = n
         /\ \A i \in 1..n : Bytes(m, from, n)[i] = <<m, from + i>>
BY DEF Bytes, Octets

(* Two pieces and the whole.                                               *)
Joined(x, y, z) == x \o y = z

LEMMA BytesJoin ==
  ASSUME NEW m \in Nat, NEW from \in Nat, NEW n \in Nat, NEW k \in Nat
  PROVE  Joined(Bytes(m, from, n), Bytes(m, from + n, k), Bytes(m, from, n + k))
<1> DEFINE a == Bytes(m, from, n)
           b == Bytes(m, from + n, k)
           c == Bytes(m, from, n + k)
<1>1. a \in Seq(Octets) /\ Len(a) = n /\ \A i \in 1..n : a[i] = <<m, from + i>>
  BY BytesAre
<1>2. b \in Seq(Octets) /\ Len(b) = k /\ \A i \in 1..k : b[i] = <<m, (from + n) + i>>
  BY BytesAre, from + n \in Nat
<1>3. c \in Seq(Octets) /\ Len(c) = n + k /\ \A i \in 1..n + k : c[i] = <<m, from + i>>
  BY BytesAre, n + k \in Nat
<1> HIDE DEF a, b, c
<1>4. /\ a \o b \in Seq(Octets) /\ Len(a \o b) = n + k
      /\ \A i \in 1..n + k : (a \o b)[i] = IF i <= n THEN a[i] ELSE b[i - n]
  BY <1>1, <1>2, ConcatProperties
<1>5. ASSUME NEW i \in 1..n + k PROVE (a \o b)[i] = c[i]
  <2>1. CASE i <= n
    <3>1. i \in 1..n
      BY <2>1
    <3>2. a[i] = <<m, from + i>> /\ c[i] = <<m, from + i>> /\ (a \o b)[i] = a[i]
      BY <1>1, <1>3, <1>4, <3>1
    <3> QED BY <3>2
  <2>2. CASE ~(i <= n)
    <3>1. i - n \in 1..k /\ (from + n) + (i - n) = from + i
      BY <2>2
    <3>2. b[i - n] = <<m, (from + n) + (i - n)>>
      BY <1>2, <3>1
    <3> QED BY <1>3, <1>4, <2>2, <3>1, <3>2
  <2> QED BY <2>1, <2>2
<1>6. a \o b = c
  BY <1>3, <1>4, <1>5, SeqEqual
<1> QED BY <1>6 DEF a, b, c, Joined

LEMMA NoBytes == ASSUME NEW m \in Nat, NEW from \in Nat PROVE Bytes(m, from, 0) = <<>>
BY BytesAre, EmptySeq

LEMMA Associates ==
  ASSUME NEW x \in Seq(Octets), NEW y \in Seq(Octets), NEW z \in Seq(Octets)
  PROVE  (x \o y) \o z = x \o (y \o z)
BY ConcatAssociative

LEMMA Leaves ==
  ASSUME NEW w \in Seq(Octets), NEW s \in Seq(Octets), NEW f \in Seq(Octets)
  PROVE  /\ (w \o s) \o (<<>> \o <<>>) = w \o (s \o <<>>)
         /\ f # <<>> => (w \o s) \o (<<Head(f)>> \o Tail(f)) = w \o (s \o f)
<1>1. (w \o s) \o (<<>> \o <<>>) = w \o (s \o <<>>)
  BY ConcatEmptySeq, ConcatProperties, EmptySeq
<1>2. ASSUME f # <<>> PROVE (w \o s) \o (<<Head(f)>> \o Tail(f)) = w \o (s \o f)
  <2> DEFINE t == Tail(f)
             h == <<Head(f)>>
  <2>1. /\ Head(f) \in Octets /\ t \in Seq(Octets) /\ Len(t) = Len(f) - 1
        /\ \A i \in 1..Len(t) : t[i] = f[i + 1]
    BY <1>2, HeadTailProperties
  <2>2. h \in Seq(Octets) /\ Len(h) = 1 /\ h[1] = f[1]
    BY <1>2, <2>1
  <2>3. Len(f) \in Nat \ {0}
    BY <1>2, EmptySeq
  <2> HIDE DEF t, h
  <2>3a. h \in Seq(Octets) /\ t \in Seq(Octets)
    BY <2>1, <2>2
  <2>4. /\ h \o t \in Seq(Octets) /\ Len(h \o t) = Len(h) + Len(t)
        /\ \A i \in 1..Len(h) + Len(t) :
             (h \o t)[i] = IF i <= Len(h) THEN h[i] ELSE t[i - Len(h)]
    BY <2>3a, ConcatProperties
  <2>5. \A i \in 1..Len(f) : (h \o t)[i] = f[i]
    BY <2>1, <2>2, <2>3, <2>4
  <2>6. h \o t = f
    <3>1. Len(h \o t) = Len(f)
      BY <2>1, <2>2, <2>3, <2>4
    <3>2. \A i \in 1..Len(h \o t) : (h \o t)[i] = f[i]
      BY <2>5, <3>1
    <3> QED BY <2>4, <3>1, <3>2, SeqEqual
  <2>7. (w \o s) \o f = w \o (s \o f)
    BY Associates
  <2> QED BY <2>6, <2>7 DEF h, t
<1> QED BY <1>1, <1>2

LEMMA Filled ==
  ASSUME NEW w \in Seq(Octets), NEW s \in Seq(Octets), NEW b \in Seq(Octets)
  PROVE  w \o (s \o b) = (w \o (s \o <<>>)) \o b
<1>1. s \o <<>> = s /\ w \o s \in Seq(Octets)
  BY ConcatEmptySeq, ConcatProperties
<1>2. (w \o s) \o b = w \o (s \o b)
  BY ConcatAssociative
<1> QED BY <1>1, <1>2

LEMMA WrittenToEmpty ==
  ASSUME NEW b \in Seq(Octets), Len(b) <= TxFifoSize
  PROVE  Write(<<>>, b) = b
<1>1. <<>> \o b = b /\ <<>> \in Seq(Octets) /\ Len(<<>>) = 0 /\ Len(b) \in Nat /\ TxFifoSize \in Nat
  BY ConcatEmptySeq, EmptySeq, LenProperties, UartAssumption
<1>2. SubSeq(b, 1, Len(b)) = b
  BY SubSeqFull
<1>3. (IF 0 + Len(b) < TxFifoSize THEN 0 + Len(b) ELSE TxFifoSize) = Len(b)
  BY <1>1
<1> QED BY <1>1, <1>2, <1>3 DEF Write

----------------------------------------------------------------------------
(* What goes to the wire.                                                  *)

WireInv == Uses /\ Stream /\ Emptied

LEMMA Lined ==
  ASSUME UartTypes
  PROVE  /\ OnLine \in Seq(Octets) /\ uartTx.wire \in Seq(Octets) /\ uartTx.shift \in Seq(Octets)
         /\ uartTx.fifo \in Seq(Octets) /\ uartAsked.bytes \in Seq(Octets)
         /\ OnLine \o <<>> = OnLine
<1>1. /\ uartTx.wire \in Seq(Octets) /\ uartTx.shift \in Seq(Octets)
      /\ uartTx.fifo \in Seq(Octets) /\ uartAsked.bytes \in Seq(Octets)
  BY DEF UartTypes
<1>2. uartTx.shift \o uartTx.fifo \in Seq(Octets)
  BY <1>1, ConcatProperties
<1>3. OnLine \in Seq(Octets)
  BY <1>1, <1>2, ConcatProperties DEF OnLine
<1>4. OnLine \o <<>> = OnLine
  BY <1>3, ConcatEmptySeq
<1> QED BY <1>1, <1>3, <1>4

(* Bytes are written to the FIFO only when it is empty.                    *)
LEMMA FifoFilled ==
  ASSUME UartTypes, NEW b \in Seq(Octets), uartTx.fifo = <<>>,
         uartTx' = [uartTx EXCEPT !.fifo = b]
  PROVE  OnLine' = OnLine \o b
<1>1. /\ uartTx'.wire = uartTx.wire /\ uartTx'.shift = uartTx.shift /\ uartTx'.fifo = b
  BY DEF UartTypes
<1>2. uartTx.wire \in Seq(Octets) /\ uartTx.shift \in Seq(Octets)
  BY Lined
<1>3. uartTx.wire \o (uartTx.shift \o b) = (uartTx.wire \o (uartTx.shift \o <<>>)) \o b
  <2> DEFINE w == uartTx.wire
             s == uartTx.shift
  <2>1. w \in Seq(Octets) /\ s \in Seq(Octets)
    BY <1>2
  <2> HIDE DEF w, s
  <2>2. w \o (s \o b) = (w \o (s \o <<>>)) \o b
    BY <2>1, Filled
  <2> QED BY <2>2 DEF w, s
<1> QED BY <1>1, <1>3 DEF OnLine

(* What is written is the next part of what was pending.                   *)
LEMMA PartFilled ==
  ASSUME UartTypes, NEW m \in Nat, NEW from \in Nat, NEW n \in Nat, NEW k \in Nat,
         uartTx.fifo = <<>>, uartTx' = [uartTx EXCEPT !.fifo = Bytes(m, from, n)],
         OnLine \o Bytes(m, from, n + k) = uartAsked.bytes
  PROVE  OnLine' \o Bytes(m, from + n, k) = uartAsked.bytes
<1>1. /\ Bytes(m, from, n) \in Seq(Octets) /\ Bytes(m, from + n, k) \in Seq(Octets)
      /\ Bytes(m, from, n) \o Bytes(m, from + n, k) = Bytes(m, from, n + k)
  <2>1. Bytes(m, from, n) \in Seq(Octets)
    BY BytesAre
  <2>2. from + n \in Nat
    OBVIOUS
  <2>3. Bytes(m, from + n, k) \in Seq(Octets)
    BY <2>2, BytesAre
  <2>4. Bytes(m, from, n) \o Bytes(m, from + n, k) = Bytes(m, from, n + k)
    <3>1. Joined(Bytes(m, from, n), Bytes(m, from + n, k), Bytes(m, from, n + k))
      BY BytesJoin
    <3> QED BY ONLY <3>1 DEF Joined
  <2> QED BY <2>1, <2>3, <2>4
<1>2. OnLine' = OnLine \o Bytes(m, from, n) /\ OnLine \in Seq(Octets)
  BY <1>1, FifoFilled, Lined
<1>3. (OnLine \o Bytes(m, from, n)) \o Bytes(m, from + n, k)
        = OnLine \o (Bytes(m, from, n) \o Bytes(m, from + n, k))
  <2> DEFINE x == OnLine
             y == Bytes(m, from, n)
             z == Bytes(m, from + n, k)
  <2>1. x \in Seq(Octets) /\ y \in Seq(Octets) /\ z \in Seq(Octets)
    BY <1>1, <1>2
  <2> HIDE DEF x, y, z
  <2>2. (x \o y) \o z = x \o (y \o z)
    BY <2>1, Associates
  <2> QED BY <2>2 DEF x, y, z
<1> QED BY <1>1, <1>2, <1>3

LEMMA UartNumbers ==
  ASSUME UartTypes
  PROVE  /\ uart.size \in Nat /\ uart.idx \in Nat /\ uart.message \in Nat /\ uart.size <= MaxSize
         /\ uartCall.left \in Nat /\ uartCall.char_idx \in Nat /\ uartAsked.messages \in Nat
         /\ TxFifoSize \in Nat \ {0} /\ RxFifoSize \in Nat \ {0} /\ MaxSize \in Nat
BY UartAssumption DEF UartTypes, UartRecord, UartCallRecord

LEMMA Rests ==
  ASSUME uartCall = Free
  PROVE  /\ ~PollsTx /\ uartCall.at = "free" /\ Position = uart.idx
         /\ ~Sending => ToWrite = <<>>
BY DEF Free, PollsTx, Position, ToWrite

(* A call that configures the UART changes neither what is sent nor how far*)
(* that has come.                                                          *)
LEMMA ConfigureSteps ==
  ASSUME UartTypes, WireInv, uartCall = Free,
         uartTx' = uartTx, uartCall' = uartCall, uartAsked' = uartAsked, uartUpset' = uartUpset,
         uart'.size = uart.size, uart'.idx = uart.idx, uart'.message = uart.message
  PROVE  WireInv'
<1>1. ~PollsTx /\ ~PollsTx' /\ uartCall.at = "free" /\ Sending' = Sending /\ Position' = Position
  BY Rests DEF PollsTx, Sending, Position
<1>2. OnLine' = OnLine /\ ToWrite' = ToWrite
  BY <1>1 DEF OnLine, ToWrite, PollsTx
<1> QED BY <1>1, <1>2 DEF WireInv, Uses, Stream, Emptied

LEMMA InitialisedSteps ==
  ASSUME UartTypes, WireInv, NEW p, uart_init(p)
  PROVE  WireInv'
<1>1. uartCall = Free /\ uartCall' = uartCall /\ uartAsked' = uartAsked
      /\ (uartUpset' = IF uartTx.fifo # <<>> \/ uartTx.shift # <<>> \/ uart.size # 0 \/ uartRx.lost
                       THEN uartUpset \cup {"reset"} ELSE uartUpset)
      /\ uartTx' = [uartTx EXCEPT !.fifo = <<>>, !.shift = <<>>]
      /\ uart'.size = 0
  BY DEF uart_init, global_init
<1>2. ~PollsTx /\ ~PollsTx' /\ uartCall.at = "free" /\ ~Sending'
  BY <1>1, Rests DEF PollsTx, Sending
<1>3. Uses' /\ Emptied'
  BY <1>1, <1>2 DEF WireInv, Uses, Emptied, PollsTx
<1>4. ASSUME uartUpset' \cap {"index", "reset"} = {}
      PROVE  OnLine' \o ToWrite' = uartAsked'.bytes
  <2>1. uartTx.fifo = <<>> /\ uartTx.shift = <<>> /\ ~Sending /\ uartUpset' = uartUpset
    BY <1>1, <1>4 DEF Sending
  <2>2. uartTx' = uartTx
    BY <1>1, <2>1 DEF UartTypes
  <2>3. ToWrite = <<>> /\ ToWrite' = <<>>
    BY <1>1, <1>2, <2>1, Rests DEF ToWrite
  <2>4. OnLine' = OnLine
    BY <2>2 DEF OnLine
  <2> QED BY <1>1, <1>4, <2>1, <2>3, <2>4 DEF WireInv, Stream
<1>5. Stream'
  BY <1>1, <1>2, <1>4 DEF Stream
<1> QED BY <1>3, <1>5 DEF WireInv

LEMMA TxHandlerSteps ==
  ASSUME UartTypes, WireInv, set_tx_handler
  PROVE  WireInv'
<1>1. /\ uartCall = Free /\ uartCall' = uartCall /\ uartAsked' = uartAsked /\ uartTx' = uartTx
      /\ uart'.size = 0 /\ uartUpset' = IF Sending THEN uartUpset \cup {"reset"} ELSE uartUpset
  BY DEF set_tx_handler, UartTypes, UartRecord
<1>2. ~PollsTx /\ ~PollsTx' /\ uartCall.at = "free" /\ ~Sending' /\ ToWrite' = <<>>
  BY <1>1, Rests DEF PollsTx, Sending, ToWrite
<1>3. ~Sending => ToWrite = <<>>
  BY <1>1, Rests
<1>4. OnLine' = OnLine
  BY <1>1 DEF OnLine
<1> QED BY <1>1, <1>2, <1>3, <1>4 DEF WireInv, Uses, Stream, Emptied

(* A message is asked for: what is pending then is just that message.      *)
LEMMA Asks ==
  ASSUME UartTypes, WireInv, uartCall = Free, ~Sending, NEW b \in Seq(Octets), ToWrite' = b,
         uartTx' = uartTx, uartAsked'.bytes = uartAsked.bytes \o b, uartUpset \subseteq uartUpset'
  PROVE  uartUpset' \cap {"index", "reset"} = {} => OnLine' \o ToWrite' = uartAsked'.bytes
<1>1. ToWrite = <<>> /\ OnLine' = OnLine
  BY Rests DEF OnLine
<1>2. uartUpset' \cap {"index", "reset"} = {} => OnLine \o <<>> = uartAsked.bytes
  BY <1>1 DEF WireInv, Stream
<1> QED BY <1>1, <1>2, Lined

LEMMA PolledSteps ==
  ASSUME UartTypes, WireInv, NEW op, NEW n \in 1..MaxSize, polled_tx(op, n)
  PROVE  WireInv'
<1>1. /\ op \in {"polled_tx", "fill_tx_fifo"} /\ uartCall = Free /\ ~Sending
      /\ uartCall'.op = op /\ uartCall'.at = "lsr" /\ uartCall'.left = n /\ uartCall'.char_idx = 0
      /\ uart' = uart /\ uartTx' = uartTx /\ uartUpset' = uartUpset
  BY DEF polled_tx, Free
<1>2. /\ uartAsked'.messages = uartAsked.messages + 1
      /\ uartAsked'.bytes = IF op = "polled_tx"
                            THEN uartAsked.bytes \o Bytes(uartAsked.messages + 1, 0, n)
                            ELSE uartAsked.bytes
  BY DEF polled_tx
<1>3. n \in Nat \ {0} /\ uartAsked.messages + 1 \in Nat
  BY UartNumbers
<1>4. PollsTx' /\ ~Sending'
  BY <1>1 DEF PollsTx, Sending
<1>5. ToWrite' = IF op = "polled_tx" THEN Bytes(uartAsked.messages + 1, 0, n) ELSE <<>>
  BY <1>1, <1>2, <1>4 DEF ToWrite
<1>6. ToWrite' \in Seq(Octets) /\ uartAsked'.bytes = uartAsked.bytes \o ToWrite'
  BY <1>2, <1>3, <1>5, BytesAre, EmptySeq, ConcatEmptySeq, Lined
<1>7. uartUpset' \cap {"index", "reset"} = {} => OnLine' \o ToWrite' = uartAsked'.bytes
  BY <1>1, <1>6, Asks
<1>8. Uses' /\ Emptied'
  BY <1>1, <1>3, <1>4 DEF Uses, Emptied, PollsTx
<1>9. Stream'
  BY <1>1, <1>4, <1>7 DEF Stream
<1> QED BY <1>8, <1>9 DEF WireInv

LEMMA IrqTxSteps ==
  ASSUME UartTypes, WireInv, NEW n \in 1..MaxSize, irq_tx(n)
  PROVE  WireInv'
<1>1. /\ uartCall = Free /\ ~Sending /\ uartTx' = uartTx
      /\ uartCall'.op = "irq_tx" /\ uartCall'.at = "index"
      /\ uart'.message = uartAsked.messages + 1 /\ uart'.size = n /\ uart'.ier = uart.ier
      /\ uartUpset' = IF "tx" \in uart.ier THEN uartUpset \cup {"index"} ELSE uartUpset
      /\ uartAsked'.bytes = uartAsked.bytes \o Bytes(uartAsked.messages + 1, 0, n)
  BY DEF irq_tx, Free, UartTypes, UartRecord
<1>2. n \in Nat \ {0} /\ uartAsked.messages + 1 \in Nat /\ n - 0 = n
  BY UartNumbers
<1>3. ~PollsTx' /\ Sending' /\ Position' = 0
  BY <1>1, <1>2 DEF PollsTx, Sending, Position
<1>4. ToWrite' = Bytes(uartAsked.messages + 1, 0, n)
  BY <1>1, <1>2, <1>3 DEF ToWrite
<1>5. ToWrite' \in Seq(Octets)
  BY <1>2, <1>4, BytesAre
<1>6. uartUpset' \cap {"index", "reset"} = {} => OnLine' \o ToWrite' = uartAsked'.bytes
  BY <1>1, <1>4, <1>5, Asks
<1>7. Uses' /\ Emptied'
  BY <1>1, <1>3 DEF Uses, Emptied
<1>8. Stream'
  BY <1>1, <1>3, <1>6 DEF Stream
<1> QED BY <1>7, <1>8 DEF WireInv

LEMMA EnabledSteps ==
  ASSUME UartTypes, WireInv, irq_tx_enable
  PROVE  WireInv'
<1>1. /\ uartCall.at = "index" /\ uartCall' = Free /\ uartTx' = uartTx /\ uartAsked' = uartAsked
      /\ uart'.idx = 0 /\ uart'.size = uart.size /\ uart'.message = uart.message
      /\ uartUpset' = uartUpset
  BY DEF irq_tx_enable, UartTypes, UartRecord
<1>2. ~PollsTx /\ ~PollsTx' /\ uartCall'.at = "free" /\ Sending' = Sending /\ Position = 0
      /\ Position' = 0
  BY <1>1, UartNumbers DEF PollsTx, Sending, Position, Free
<1>3. OnLine' = OnLine /\ ToWrite' = ToWrite
  BY <1>1, <1>2 DEF OnLine, ToWrite
<1>4. uart.size \in Nat
  BY UartNumbers
<1> QED BY <1>1, <1>2, <1>3, <1>4 DEF WireInv, Uses, Stream, Emptied

LEMMA QuerySteps ==
  ASSUME UartTypes, WireInv, NEW op, NEW n, query(op, n)
  PROVE  WireInv'
<1>1. /\ op \in {"get_rx", "tx_complete", "get_rx_status"} /\ uartCall = Free
      /\ uartCall'.op = op /\ uartCall'.at = "lsr"
      /\ uart' = uart /\ uartTx' = uartTx /\ uartAsked' = uartAsked /\ uartUpset' = uartUpset
  BY DEF query, Free
<1>2. ~PollsTx /\ ~PollsTx' /\ Sending' = Sending /\ Position' = Position /\ uartCall.at = "free"
  BY <1>1, Rests DEF PollsTx, Sending, Position
<1>3. OnLine' = OnLine /\ ToWrite' = ToWrite
  BY <1>1, <1>2 DEF OnLine, ToWrite
<1> QED BY <1>1, <1>2, <1>3 DEF WireInv, Uses, Stream, Emptied

LEMMA ReadLsrSteps ==
  ASSUME UartTypes, WireInv, read_lsr
  PROVE  WireInv'
<1>1. /\ uartCall.at = "lsr" /\ uartCall'.at = "store" /\ uartCall'.op = uartCall.op
      /\ uartCall'.left = uartCall.left /\ uartCall'.char_idx = uartCall.char_idx
      /\ uartCall'.thre = (uartTx.fifo = <<>>)
      /\ uartCall'.temt = (uartTx.fifo = <<>> /\ uartTx.shift = <<>>)
      /\ uart' = uart /\ uartTx' = uartTx /\ uartAsked' = uartAsked /\ uartUpset' = uartUpset
  BY DEF read_lsr, UartTypes, UartCallRecord
<1>2. PollsTx' = PollsTx /\ Sending' = Sending /\ Position' = Position
  BY <1>1 DEF PollsTx, Sending, Position
<1>3. OnLine' = OnLine /\ ToWrite' = ToWrite
  BY <1>1, <1>2 DEF OnLine, ToWrite
<1> QED BY <1>1, <1>2, <1>3 DEF WireInv, Uses, Stream, Emptied

LEMMA ReturnSteps ==
  ASSUME UartTypes, WireInv, return
  PROVE  WireInv'
<1>1. /\ uartCall.at = "return" /\ uartCall' = Free
      /\ uart' = uart /\ uartTx' = uartTx /\ uartAsked' = uartAsked /\ uartUpset' = uartUpset
  BY DEF return
<1>2. ~PollsTx /\ ~PollsTx' /\ Sending' = Sending /\ Position' = Position /\ uartCall'.at = "free"
  BY <1>1 DEF PollsTx, Sending, Position, Free
<1>3. OnLine' = OnLine /\ ToWrite' = ToWrite
  BY <1>1, <1>2 DEF OnLine, ToWrite
<1> QED BY <1>1, <1>2, <1>3 DEF WireInv, Uses, Stream, Emptied

(* The store of a call that does not transmit.                             *)
LEMMA StoredSteps ==
  ASSUME UartTypes, WireInv, store_status, ~PollsTx
  PROVE  WireInv'
<1>1. /\ uartCall.at = "store" /\ uartTx' = uartTx /\ uartAsked' = uartAsked
      /\ uart'.size = uart.size /\ uart'.idx = uart.idx /\ uart'.message = uart.message
      /\ uart'.ier = uart.ier /\ uartUpset' = uartUpset
  BY DEF store_status, PollsTx, UartTypes, UartRecord
<1>2. \/ uartCall' = Free
      \/ uartCall.op = "get_rx" /\ uartCall'.op = "get_rx" /\ uartCall'.at = "lsr"
      \/ /\ uartCall.op = "tx_complete" /\ uartCall'.at = "return" /\ uartCall'.op = "none"
         /\ uartCall'.result = (uart.size = 0 /\ uartCall.temt)
  <2>1. CASE uartCall.op = "get_rx"
    <3>1. uartCall' = Free \/ uartCall' = [uartCall EXCEPT !.at = "lsr", !.left = @ - 1]
      BY <2>1 DEF store_status
    <3>2. \A x : [uartCall EXCEPT !.at = "lsr", !.left = x].op = uartCall.op
               /\ [uartCall EXCEPT !.at = "lsr", !.left = x].at = "lsr"
      BY DEF UartTypes, UartCallRecord
    <3> QED BY <2>1, <3>1, <3>2
  <2>2. CASE uartCall.op = "tx_complete"
    <3>1. uartCall' = [Free EXCEPT !.at = "return", !.result = (uart.size = 0 /\ uartCall.temt)]
      BY <2>2 DEF store_status
    <3> QED BY <2>2, <3>1 DEF Free
  <2>3. CASE uartCall.op = "get_rx_status"
    BY <2>3 DEF store_status
  <2> QED BY <1>1, <2>1, <2>2, <2>3 DEF store_status, PollsTx
<1>3. ~PollsTx' /\ Sending' = Sending /\ Position' = Position
  BY <1>1, <1>2 DEF PollsTx, Sending, Position, Free
<1>4. OnLine' = OnLine /\ ToWrite' = ToWrite
  BY <1>1, <1>3 DEF OnLine, ToWrite
<1>5. Uses'
  BY <1>2, <1>3 DEF Uses
<1>6. Stream'
  BY <1>1, <1>2, <1>3, <1>4 DEF WireInv, Stream, Free
<1>7. Emptied'
  <2>1. uartCall'.at # "store"
    BY <1>2 DEF Free
  <2>2. ASSUME uartUpset \cap {"index", "reset", "torn"} = {}, uartCall'.at = "return",
               uartCall'.result
        PROVE  uartTx.fifo = <<>> /\ uartTx.shift = <<>> /\ ~Sending
    <3>0. uartCall' # Free /\ uartCall'.at # "lsr"
      BY <2>2 DEF Free
    <3>1. uartCall.op = "tx_complete" /\ uart.size = 0 /\ uartCall.temt
      <4>1. uartCall.op = "tx_complete" /\ uartCall'.result = (uart.size = 0 /\ uartCall.temt)
        BY <1>2, <3>0
      <4>2. uartCall'.result = TRUE /\ uartCall.temt \in BOOLEAN
        <5>1. uartCall' = [Free EXCEPT !.at = "return", !.result = (uart.size = 0 /\ uartCall.temt)]
          BY <1>1, <4>1 DEF store_status
        <5>2. uartCall.temt \in BOOLEAN
          BY DEF UartTypes, UartCallRecord
        <5>3. uartCall'.result \in BOOLEAN
          BY <4>1, <5>2
        <5> QED BY <2>2, <5>2, <5>3
      <4> QED BY <4>1, <4>2
    <3>2. uartTx.fifo = <<>> /\ uartTx.shift = <<>>
      BY <1>1, <2>2, <3>1 DEF WireInv, Emptied
    <3> QED BY <3>1, <3>2 DEF Sending
  <2> QED BY <1>1, <1>3, <2>1, <2>2 DEF Emptied
<1> QED BY <1>5, <1>6, <1>7 DEF WireInv

(* The store of a call that transmits.                                     *)
LEMMA FillSteps ==
  ASSUME UartTypes, WireInv, store_status, PollsTx
  PROVE  WireInv'
<1> DEFINE m == uartAsked.messages
           from == uartCall.char_idx
           left == uartCall.left
           n == Lower(left, TxFifoSize)
           once == uartCall.op = "fill_tx_fifo"
<1>1. /\ uartCall.at = "store" /\ uartCall.op \in {"polled_tx", "fill_tx_fifo"} /\ ~Sending
      /\ left > 0 /\ (uartCall.thre => uartTx.fifo = <<>>)
  BY DEF store_status, PollsTx, WireInv, Uses
<1>2. /\ m \in Nat /\ from \in Nat /\ left \in Nat /\ n \in Nat \ {0} /\ left - n \in Nat /\ n <= TxFifoSize
      /\ n + (left - n) = left
  BY <1>1, UartNumbers DEF Lower
<1>3. /\ uart'.size = uart.size /\ uart'.idx = uart.idx /\ uart'.message = uart.message
      /\ uart'.ier = uart.ier /\ uartUpset' = uartUpset
  BY DEF store_status, UartTypes, UartRecord
<1>4. ~Sending' /\ (ToWrite = IF once THEN <<>> ELSE Bytes(m, from, left))
  BY <1>1, <1>3 DEF Sending, ToWrite
<1>5. uartUpset \cap {"index", "reset"} = {} => OnLine \o ToWrite = uartAsked.bytes
  BY DEF WireInv, Stream
<1>6. CASE uartCall.thre
  <2>1. /\ uartTx' = [uartTx EXCEPT !.fifo = Write(@, Bytes(m, from, n))]
        /\ uartAsked' = IF once THEN [uartAsked EXCEPT !.bytes = @ \o Bytes(m, from, n)] ELSE uartAsked
        /\ uartCall' = IF n = left \/ once THEN Free
                       ELSE [uartCall EXCEPT !.at = "lsr", !.left = @ - n, !.char_idx = @ + n]
    BY <1>1, <1>6 DEF store_status
  <2>2. Bytes(m, from, n) \in Seq(Octets) /\ Len(Bytes(m, from, n)) <= TxFifoSize
    BY <1>2, BytesAre
  <2>3. uartTx' = [uartTx EXCEPT !.fifo = Bytes(m, from, n)] /\ uartTx.fifo = <<>>
    BY <1>1, <1>6, <2>1, <2>2, WrittenToEmpty
  <2> HIDE DEF m, from, left, n, once
  <2>4. CASE once
    <3>1. uartCall' = Free /\ ToWrite' = <<>> /\ ~PollsTx'
      BY <1>4, <2>1, <2>4 DEF ToWrite, PollsTx, Free
    <3>2. OnLine' = OnLine \o Bytes(m, from, n)
      BY <2>2, <2>3, FifoFilled
    <3>3. uartAsked'.bytes = uartAsked.bytes \o Bytes(m, from, n)
      BY <2>1, <2>4 DEF UartTypes
    <3>4. uartUpset \cap {"index", "reset"} = {} => OnLine = uartAsked.bytes
      BY <1>4, <1>5, <2>4, Lined
    <3>5. OnLine' \o <<>> = OnLine'
      <4>1. OnLine \o Bytes(m, from, n) \in Seq(Octets)
        BY <2>2, Lined, ConcatProperties
      <4> QED BY <3>2, <4>1, ConcatEmptySeq
    <3>6. uartUpset' \cap {"index", "reset"} = {} => OnLine' \o ToWrite' = uartAsked'.bytes
      BY <1>3, <3>1, <3>2, <3>3, <3>4, <3>5
    <3> QED BY <1>4, <3>1, <3>6 DEF WireInv, Uses, Stream, Emptied, Free
  <2>5. CASE ~once
    <3>1. uartAsked' = uartAsked
      BY <2>1, <2>5
    <3>2. uartUpset \cap {"index", "reset"} = {} =>
            OnLine' \o Bytes(m, from + n, left - n) = uartAsked.bytes
      <4>1. SUFFICES ASSUME uartUpset \cap {"index", "reset"} = {}
                     PROVE  OnLine' \o Bytes(m, from + n, left - n) = uartAsked.bytes
        OBVIOUS
      <4>2. OnLine \o Bytes(m, from, n + (left - n)) = uartAsked.bytes
        BY <1>2, <1>4, <1>5, <2>5, <4>1
      <4>3. m \in Nat /\ from \in Nat /\ n \in Nat /\ left - n \in Nat
        BY <1>2
      <4> DEFINE k == left - n
      <4> HIDE DEF k
      <4>4. k \in Nat /\ OnLine \o Bytes(m, from, n + k) = uartAsked.bytes
        BY <4>2, <4>3 DEF k
      <4>5. OnLine' \o Bytes(m, from + n, k) = uartAsked.bytes
        BY ONLY UartTypes, <2>3, <4>3, <4>4, PartFilled, ZenonT(60)
      <4> QED BY <4>5 DEF k
    <3>3. CASE n = left
      <4>1. uartCall' = Free /\ ToWrite' = <<>> /\ ~PollsTx'
        BY <1>4, <2>1, <3>3 DEF ToWrite, PollsTx, Free
      <4>2. Bytes(m, from + n, left - n) = <<>>
        <5>1. left - n = 0 /\ from + n \in Nat
          BY <1>2, <3>3
        <5> QED BY <1>2, <5>1, NoBytes
      <4> QED BY <1>3, <1>4, <3>1, <3>2, <4>1, <4>2 DEF WireInv, Uses, Stream, Emptied, Free
    <3>4. CASE n # left
      <4>1. /\ uartCall'.at = "lsr" /\ uartCall'.op = uartCall.op /\ uartCall'.left = left - n
            /\ uartCall'.char_idx = from + n
        BY <2>1, <2>5, <3>4 DEF UartTypes, UartCallRecord, left, from
      <4>2. PollsTx' /\ left - n > 0
        BY <1>1, <1>2, <3>4, <4>1 DEF PollsTx
      <4>3. ToWrite' = Bytes(m, from + n, left - n)
        BY <1>1, <2>5, <3>1, <4>1, <4>2 DEF ToWrite, m, once
      <4> QED BY <1>3, <1>4, <3>1, <3>2, <4>1, <4>2, <4>3 DEF WireInv, Uses, Stream, Emptied
    <3> QED BY <3>3, <3>4
  <2> QED BY <2>4, <2>5
<1>7. CASE ~uartCall.thre
  <2>1. /\ uartTx' = uartTx /\ uartAsked' = uartAsked
        /\ uartCall' = IF once THEN Free ELSE [uartCall EXCEPT !.at = "lsr"]
    BY <1>1, <1>7 DEF store_status
  <2>2. OnLine' = OnLine
    BY <2>1 DEF OnLine
  <2>3. CASE once
    <3>1. uartCall' = Free /\ ToWrite' = <<>> /\ ~PollsTx'
      BY <1>4, <2>1, <2>3 DEF ToWrite, PollsTx, Free
    <3> QED BY <1>3, <1>4, <1>5, <2>1, <2>2, <2>3, <3>1 DEF WireInv, Uses, Stream, Emptied, Free
  <2>4. CASE ~once
    <3>1. /\ uartCall'.at = "lsr" /\ uartCall'.op = uartCall.op /\ uartCall'.left = left
          /\ uartCall'.char_idx = from
      BY <2>1, <2>4 DEF UartTypes, UartCallRecord
    <3>2. PollsTx' /\ ToWrite' = ToWrite
      BY <1>1, <1>4, <2>1, <2>4, <3>1 DEF PollsTx, ToWrite
    <3> QED BY <1>1, <1>3, <1>4, <1>5, <2>1, <2>2, <3>1, <3>2 DEF WireInv, Uses, Stream, Emptied
  <2> QED BY <2>3, <2>4
<1> QED BY <1>6, <1>7

(* The interrupt handler writes the next part of the message.              *)
LEMMA TxIrqSteps ==
  ASSUME UartTypes, WireInv, default_tx_handler
  PROVE  WireInv'
<1> DEFINE idx == uart.idx
           left == uart.size - uart.idx
           n == IF idx > uart.size THEN TxFifoSize ELSE Lower(left, TxFifoSize)
<1>1. /\ "tx" \in uart.ier /\ Sending /\ uartTx.fifo = <<>> /\ uartCall' = uartCall
      /\ uartTx' = [uartTx EXCEPT !.fifo = Bytes(uart.message, idx, n)]
      /\ uartAsked' = uartAsked /\ uartUpset' = Torn
  BY UartNumbers DEF default_tx_handler, Sending
<1>2. /\ uart'.message = uart.message /\ uart'.idx = idx + n
      /\ uart'.size = IF idx + n = uart.size THEN 0 ELSE uart.size
  BY DEF default_tx_handler, UartTypes, UartRecord
<1>3. ~PollsTx /\ ~PollsTx'
  BY <1>1 DEF WireInv, Uses, PollsTx
<1>4. Uses'
  BY <1>1, <1>3 DEF WireInv, Uses, Free
<1>5. Emptied'
  BY <1>1 DEF WireInv, Emptied, Torn
<1>6. ASSUME uartUpset' \cap {"index", "reset"} = {}
      PROVE  /\ OnLine' \o ToWrite' = uartAsked.bytes /\ uartCall.at # "index"
             /\ Sending' => uart'.idx <= uart'.size
  <2>1. uartUpset \cap {"index", "reset"} = {}
    BY <1>1, <1>6 DEF Torn
  <2>2. OnLine \o ToWrite = uartAsked.bytes /\ uartCall.at # "index" /\ idx <= uart.size
    BY <1>1, <2>1 DEF WireInv, Stream
  <2>3. /\ idx \in Nat /\ left \in Nat /\ n \in Nat /\ left - n \in Nat /\ n + (left - n) = left
        /\ (idx + n = uart.size <=> left - n = 0) /\ uart.message \in Nat /\ idx + n <= uart.size
        /\ uart.size - (idx + n) = left - n /\ idx + n \in Nat
    <3>1. /\ idx \in Nat /\ uart.size \in Nat /\ uart.message \in Nat /\ TxFifoSize \in Nat
          /\ left = uart.size - idx /\ idx <= uart.size
      BY <2>2, UartNumbers
    <3>2. n = IF left < TxFifoSize THEN left ELSE TxFifoSize
      BY <3>1 DEF Lower
    <3> HIDE DEF idx, left, n
    <3> QED BY <3>1, <3>2, SMTT(60)
  <2>4. ToWrite = Bytes(uart.message, idx, left)
    BY <1>1, <1>3, <2>2 DEF ToWrite, Position
  <2>5. OnLine' \o Bytes(uart.message, idx + n, left - n) = uartAsked.bytes
    <3> HIDE DEF idx, left, n
    <3>1. OnLine \o Bytes(uart.message, idx, n + (left - n)) = uartAsked.bytes
      BY <2>2, <2>3, <2>4
    <3>2. uart.message \in Nat /\ idx \in Nat /\ n \in Nat /\ left - n \in Nat
      BY <2>3
    <3> QED BY <1>1, <3>1, <3>2, PartFilled
  <2>6. CASE idx + n = uart.size
    <3>1. ~Sending' /\ ToWrite' = <<>>
      BY <1>2, <1>3, <2>6 DEF Sending, ToWrite
    <3>2. Bytes(uart.message, idx + n, left - n) = <<>>
      BY <2>3, <2>6, NoBytes
    <3> QED BY <2>2, <2>5, <3>1, <3>2
  <2>7. CASE idx + n # uart.size
    <3>1. Sending' /\ uart'.size = uart.size
      BY <1>1, <1>2, <2>7 DEF Sending
    <3>2. Position' = idx + n
      BY <1>1, <1>2, <2>2 DEF Position
    <3>3. ToWrite' = Bytes(uart.message, idx + n, left - n)
      BY <1>2, <1>3, <2>3, <3>1, <3>2 DEF ToWrite
    <3> QED BY <1>2, <2>2, <2>3, <2>5, <3>1, <3>3
  <2> QED BY <2>6, <2>7
<1>7. Stream'
  BY <1>1, <1>6 DEF Stream
<1> QED BY <1>4, <1>5, <1>7 DEF WireInv

LEMMA ShiftSteps ==
  ASSUME UartTypes, WireInv, shift_out
  PROVE  WireInv'
<1>1. /\ uart' = uart /\ uartCall' = uartCall /\ uartAsked' = uartAsked /\ uartUpset' = uartUpset
      /\ ~(uartTx.fifo = <<>> /\ uartTx.shift = <<>>)
  BY DEF shift_out
<1>2. PollsTx' = PollsTx /\ Sending' = Sending /\ ToWrite' = ToWrite
  BY <1>1 DEF PollsTx, Sending, ToWrite, Position
<1>3. OnLine' = OnLine /\ (uartTx.fifo = <<>> => uartTx'.fifo = <<>>)
  <2> DEFINE w == uartTx.wire
             s == uartTx.shift
             f == uartTx.fifo
  <2>1. w \in Seq(Octets) /\ s \in Seq(Octets) /\ f \in Seq(Octets)
    BY Lined
  <2>2. CASE f = <<>>
    <3>1. uartTx'.wire = w \o s /\ uartTx'.shift = <<>> /\ uartTx'.fifo = <<>>
      BY <2>2 DEF shift_out, UartTypes
    <3> HIDE DEF w, s, f
    <3>2. (w \o s) \o (<<>> \o <<>>) = w \o (s \o <<>>)
      BY <2>1, Leaves
    <3> QED BY <2>2, <3>1, <3>2 DEF OnLine, w, s, f
  <2>3. CASE f # <<>>
    <3>1. uartTx'.wire = w \o s /\ uartTx'.shift = <<Head(f)>> /\ uartTx'.fifo = Tail(f)
      BY <2>3 DEF shift_out
    <3> HIDE DEF w, s, f
    <3>2. (w \o s) \o (<<Head(f)>> \o Tail(f)) = w \o (s \o f)
      BY <2>1, <2>3, Leaves
    <3> QED BY <2>3, <3>1, <3>2 DEF OnLine, w, s, f
  <2> QED BY <2>2, <2>3
<1> QED BY <1>1, <1>2, <1>3 DEF WireInv, Uses, Stream, Emptied

(* A step that touches neither side of the transmitter.                    *)
LEMMA OtherSteps ==
  ASSUME UartTypes, WireInv, uartTx' = uartTx, uartCall' = uartCall, uartAsked' = uartAsked,
         uart'.size = uart.size, uart'.idx = uart.idx, uart'.message = uart.message,
         uart'.ier = uart.ier, uartUpset \subseteq uartUpset'
  PROVE  WireInv'
<1>1. PollsTx' = PollsTx /\ Sending' = Sending /\ ToWrite' = ToWrite /\ OnLine' = OnLine
  BY DEF PollsTx, Sending, ToWrite, Position, OnLine
<1> QED BY <1>1 DEF WireInv, Uses, Stream, Emptied

LEMMA SettingSteps ==
  ASSUME UartTypes, WireInv, Setting
  PROVE  WireInv'
<1>1. ASSUME NEW u, Configure(u), u.size = uart.size, u.idx = uart.idx, u.message = uart.message
      PROVE  WireInv'
  BY <1>1, ConfigureSteps DEF Configure
<1>2. \A b : [uart EXCEPT !.bits = b].size = uart.size /\ [uart EXCEPT !.bits = b].idx = uart.idx
           /\ [uart EXCEPT !.bits = b].message = uart.message
  BY DEF UartTypes, UartRecord
<1>3. \A a, b, c : LET u == [uart EXCEPT !.handler = a, !.ier = b, !.iem = c]
                 IN  u.size = uart.size /\ u.idx = uart.idx /\ u.message = uart.message
  BY DEF UartTypes, UartRecord
<1>4. ASSUME NEW bits, NEW b, NEW on, SetOrClear(bits, b, on) PROVE WireInv'
  BY <1>1, <1>2, <1>4 DEF SetOrClear
<1>5. ASSUME NEW p, uart_init(p) PROVE WireInv'
  BY <1>5, InitialisedSteps
<1>6. ASSUME set_tx_handler PROVE WireInv'
  BY <1>6, TxHandlerSteps
<1>7. ASSUME NEW b, NEW on, set_loopback(b, on) PROVE WireInv'
  BY <1>1, <1>2, <1>7 DEF set_loopback
<1>8. ASSUME NEW h, set_handler(h) \/ set_mode_handler(h) \/ enable_irq(h) \/ disable_irq(h)
      PROVE  WireInv'
  <2>1. CASE set_handler(h)
    <3>1. Configure([uart EXCEPT !.handler = @ \cup {h}, !.ier = @ \cup {h}])
      BY <2>1 DEF set_handler
    <3> QED BY <3>1, <1>1 DEF UartTypes, UartRecord
  <2>2. CASE set_mode_handler(h)
    <3>1. Configure([uart EXCEPT !.handler = @ \cup {h}, !.iem = @ \cup {h}])
      BY <2>2 DEF set_mode_handler
    <3> QED BY <3>1, <1>1 DEF UartTypes, UartRecord
  <2>3. CASE enable_irq(h)
    <3>1. Configure([uart EXCEPT !.ier = @ \cup ({h} \cap IerBits), !.iem = @ \cup ({h} \cap IemBits)])
      BY <2>3 DEF enable_irq
    <3> QED BY <3>1, <1>1 DEF UartTypes, UartRecord
  <2>4. CASE disable_irq(h)
    <3>1. Configure([uart EXCEPT !.ier = @ \ {h}, !.iem = IemBits])
      BY <2>4 DEF disable_irq
    <3> QED BY <3>1, <1>1 DEF UartTypes, UartRecord
  <2> QED BY <1>8, <2>1, <2>2, <2>3, <2>4
<1> QED BY <1>4, <1>5, <1>6, <1>7, <1>8
        DEF Setting, set_duplex, set_address, set_guard, set_usart_mode, set_break, clear_break

LEMMA WireSteps ==
  ASSUME UartTypes, WireInv, [UartNext]_uartVars
  PROVE  WireInv'
<1>1. ASSUME UartCall PROVE WireInv'
  BY <1>1, PolledSteps, IrqTxSteps, QuerySteps DEF UartCall
<1>2. ASSUME UartStep PROVE WireInv'
  BY <1>2, EnabledSteps, ReadLsrSteps, StoredSteps, FillSteps, ReturnSteps DEF UartStep
<1>3. ASSUME rx_handler PROVE WireInv'
  BY <1>3, OtherSteps DEF rx_handler, Torn, UartTypes, UartRecord
<1>4. ASSUME arrive PROVE WireInv'
  BY <1>4, OtherSteps DEF arrive
<1>5. ASSUME UNCHANGED uartVars PROVE WireInv'
  BY <1>5, OtherSteps DEF uartVars
<1> QED BY <1>1, <1>2, <1>3, <1>4, <1>5, SettingSteps, TxIrqSteps, ShiftSteps DEF UartNext, UartIsr

----------------------------------------------------------------------------
(* Overruns.                                                               *)

OverrunInv == Sample /\ NoSilentOverrun

LEMMA OverrunSettings ==
  ASSUME UartTypes, OverrunInv, Setting
  PROVE  OverrunInv'
<1> USE DEF OverrunInv, Sample, NoSilentOverrun
<1>1. ASSUME uartCall = Free, uartCall' = uartCall, uartRx' = uartRx, uart'.status = uart.status,
             uartUpset \subseteq uartUpset'
      PROVE  OverrunInv'
  BY <1>1 DEF Free
<1>2. ASSUME NEW u, Configure(u), u.status = uart.status
      PROVE  OverrunInv'
  BY <1>1, <1>2 DEF Configure
<1>3. ASSUME NEW bits, NEW b, NEW on, SetOrClear(bits, b, on) PROVE OverrunInv'
  <2>1. \A x : [uart EXCEPT !.bits = x].status = uart.status
    BY DEF UartTypes, UartRecord
  <2> QED BY <1>2, <1>3, <2>1 DEF SetOrClear
<1>4. ASSUME NEW b, NEW on, set_loopback(b, on) PROVE OverrunInv'
  <2>1. \A x : [uart EXCEPT !.bits = x].status = uart.status
    BY DEF UartTypes, UartRecord
  <2> QED BY <1>2, <1>4, <2>1 DEF set_loopback
<1>5. ASSUME NEW p, uart_init(p) PROVE OverrunInv'
  <2>1. /\ uartCall = Free /\ uartCall' = uartCall
        /\ uartRx' = [uartRx EXCEPT !.held = 0, !.overrun = FALSE]
        /\ uartRx.lost => "reset" \in uartUpset'
    BY <1>5 DEF uart_init
  <2>2. uartRx'.lost = uartRx.lost
    BY <2>1 DEF UartTypes
  <2> QED BY <2>1, <2>2 DEF Free
<1>6. ASSUME set_tx_handler PROVE OverrunInv'
  BY <1>1, <1>6 DEF set_tx_handler, UartTypes, UartRecord
<1>7. ASSUME NEW h, set_handler(h) \/ set_mode_handler(h) \/ enable_irq(h) \/ disable_irq(h)
      PROVE  OverrunInv'
  <2>1. CASE set_handler(h)
    BY <1>2, <2>1 DEF set_handler, UartTypes, UartRecord
  <2>2. CASE set_mode_handler(h)
    BY <1>2, <2>2 DEF set_mode_handler, UartTypes, UartRecord
  <2>3. CASE enable_irq(h)
    BY <1>2, <2>3 DEF enable_irq, UartTypes, UartRecord
  <2>4. CASE disable_irq(h)
    BY <1>2, <2>4 DEF disable_irq, UartTypes, UartRecord
  <2> QED BY <1>7, <2>1, <2>2, <2>3, <2>4
<1> HIDE DEF OverrunInv
<1> QED BY <1>3, <1>4, <1>5, <1>6, <1>7
        DEF Setting, set_duplex, set_address, set_guard, set_usart_mode, set_break, clear_break

LEMMA OverrunSteps ==
  ASSUME UartTypes, OverrunInv, [UartNext]_uartVars
  PROVE  OverrunInv'
<1> USE DEF OverrunInv, Sample, NoSilentOverrun
<1>1. ASSUME uartCall'.at # "store", uartCall.at # "store", uartRx' = uartRx,
             uart'.status = uart.status, uartUpset \subseteq uartUpset'
      PROVE  OverrunInv'
  BY <1>1
<1>2. ASSUME UartCall PROVE OverrunInv'
  <2>1. ASSUME NEW op, NEW n, polled_tx(op, n) PROVE OverrunInv'
    BY <1>1, <2>1 DEF polled_tx, Free
  <2>2. ASSUME NEW n, irq_tx(n) PROVE OverrunInv'
    BY <1>1, <2>2 DEF irq_tx, Free, UartTypes, UartRecord
  <2>3. ASSUME NEW op, NEW n, query(op, n) PROVE OverrunInv'
    BY <1>1, <2>3 DEF query, Free
  <2> QED BY <1>2, <2>1, <2>2, <2>3 DEF UartCall
<1>3. ASSUME irq_tx_enable PROVE OverrunInv'
  BY <1>1, <1>3 DEF irq_tx_enable, Free, UartTypes, UartRecord
<1>4. ASSUME return PROVE OverrunInv'
  BY <1>1, <1>4 DEF return, Free
<1>5. ASSUME read_lsr PROVE OverrunInv'
  <2>1. /\ uartCall.at = "lsr" /\ uartCall'.at = "store" /\ uartCall'.oe = uartRx.overrun
        /\ uartCall'.seen = uart.status /\ uart' = uart /\ uartUpset' = uartUpset
        /\ uartRx'.overrun = FALSE /\ uartRx'.lost = uartRx.lost
    BY <1>5 DEF read_lsr, UartTypes, UartCallRecord
  <2> QED BY <2>1
<1>6. ASSUME store_status PROVE OverrunInv'
  <2>1. /\ uartCall.at = "store" /\ uartUpset' = uartUpset
        /\ uart'.status = (Collected /\ uartCall.op # "get_rx_status")
    BY <1>6 DEF store_status, UartTypes, UartRecord
  <2>2. uartCall'.at # "store"
    <3>0. /\ Free.at = "free" /\ [uartCall EXCEPT !.at = "lsr"].at = "lsr"
          /\ \A x : [uartCall EXCEPT !.at = "lsr", !.left = x].at = "lsr"
          /\ \A x, y : [uartCall EXCEPT !.at = "lsr", !.left = x, !.char_idx = y].at = "lsr"
      BY DEF UartTypes, UartCallRecord, Free
    <3>1. CASE uartCall.op \in {"polled_tx", "fill_tx_fifo"}
      <4>1. \/ uartCall' = Free \/ uartCall' = [uartCall EXCEPT !.at = "lsr"]
            \/ \E x, y : uartCall' = [uartCall EXCEPT !.at = "lsr", !.left = x, !.char_idx = y]
        BY <1>6, <2>1, <3>1 DEF store_status
      <4>2. CASE uartCall' = Free
        BY <3>0, <4>2
      <4>3. CASE uartCall' = [uartCall EXCEPT !.at = "lsr"]
        BY <3>0, <4>3
      <4>4. CASE \E x, y : uartCall' = [uartCall EXCEPT !.at = "lsr", !.left = x, !.char_idx = y]
        <5>1. PICK x, y : uartCall' = [uartCall EXCEPT !.at = "lsr", !.left = x, !.char_idx = y]
          BY <4>4
        <5>2. [uartCall EXCEPT !.at = "lsr", !.left = x, !.char_idx = y].at = "lsr"
          BY <3>0
        <5> QED BY <5>1, <5>2
      <4> QED BY <4>1, <4>2, <4>3, <4>4
    <3>2. CASE uartCall.op = "get_rx"
      <4>1. uartCall' = [uartCall EXCEPT !.at = "lsr", !.left = @ - 1] \/ uartCall' = Free
        BY <1>6, <2>1, <3>2 DEF store_status
      <4> QED BY <3>0, <4>1
    <3>3. CASE uartCall.op = "tx_complete"
      BY <1>6, <2>1, <3>3 DEF store_status, Free
    <3>4. CASE uartCall.op = "get_rx_status"
      BY <1>6, <2>1, <3>4 DEF store_status, Free
    <3> QED BY <1>6, <3>1, <3>2, <3>3, <3>4 DEF store_status
  <2>3. /\ uartRx'.overrun = uartRx.overrun
        /\ uartRx'.lost = IF uartCall.op = "get_rx_status" /\ Collected THEN FALSE ELSE uartRx.lost
    <3>1. CASE uartCall.op = "get_rx_status"
      <4>1. uartRx' = IF Collected THEN [uartRx EXCEPT !.lost = FALSE] ELSE uartRx
        BY <1>6, <2>1, <3>1 DEF store_status
      <4> QED BY <3>1, <4>1 DEF UartTypes
    <3>2. CASE uartCall.op = "get_rx"
      <4>1. \/ uartRx' = [uartRx EXCEPT !.held = IF @ > 0 THEN @ - 1 ELSE 0]
            \/ uartRx' = uartRx
        BY <1>6, <2>1, <3>2 DEF store_status
      <4> QED BY <3>2, <4>1 DEF UartTypes
    <3>3. CASE uartCall.op \notin {"get_rx", "get_rx_status"}
      BY <1>6, <2>1, <3>3 DEF store_status
    <3> QED BY <3>1, <3>2, <3>3
  <2>4. uartCall.seen \in BOOLEAN /\ uartCall.oe \in BOOLEAN /\ uart.status \in BOOLEAN
    BY DEF UartTypes, UartRecord, UartCallRecord
  <2> QED BY <2>1, <2>2, <2>3, <2>4 DEF Collected
<1>7. ASSUME default_tx_handler \/ rx_handler PROVE OverrunInv'
  <2>1. /\ uartCall' = uartCall /\ uartUpset' = Torn /\ uart'.status = (uart.status \/ uartRx.overrun)
        /\ uartRx'.lost = uartRx.lost
    BY <1>7 DEF default_tx_handler, rx_handler, UartTypes, UartRecord
  <2> QED BY <2>1 DEF Torn
<1>8. ASSUME shift_out PROVE OverrunInv'
  BY <1>8 DEF shift_out
<1>9. ASSUME arrive PROVE OverrunInv'
  <2>1. /\ uartCall' = uartCall /\ uartUpset' = uartUpset /\ uart' = uart
        /\ \/ uartRx'.overrun
           \/ uartRx'.overrun = uartRx.overrun /\ uartRx'.lost = uartRx.lost
    BY <1>9 DEF arrive, UartTypes
  <2> QED BY <2>1
<1>10. ASSUME UNCHANGED uartVars PROVE OverrunInv'
  BY <1>10 DEF uartVars
<1> HIDE DEF OverrunInv
<1> QED BY <1>2, <1>3, <1>4, <1>5, <1>6, <1>7, <1>8, <1>9, <1>10, OverrunSettings
        DEF UartNext, UartStep, UartIsr

----------------------------------------------------------------------------
(* Types.                                                                  *)

LEMMA WriteFits ==
  ASSUME NEW f \in Seq(Octets), NEW b \in Seq(Octets)
  PROVE  Write(f, b) \in Seq(Octets) /\ Len(Write(f, b)) <= TxFifoSize
<1> DEFINE s == f \o b
           n == IF Len(f) + Len(b) < TxFifoSize THEN Len(f) + Len(b) ELSE TxFifoSize
<1>1. s \in Seq(Octets) /\ Len(s) = Len(f) + Len(b)
  BY ConcatProperties
<1>2. Len(f) \in Nat /\ Len(b) \in Nat /\ TxFifoSize \in Nat
  BY LenProperties, UartAssumption
<1>3. n \in Nat /\ n <= Len(s) /\ n <= TxFifoSize
  BY <1>1, <1>2
<1>4. Write(f, b) = SubSeq(s, 1, n)
  BY DEF Write
<1> HIDE DEF s, n
<1>5. \A i \in 1..n : s[i] \in Octets
  BY <1>1, <1>3, ElementOfSeq
<1>6. /\ SubSeq(s, 1, n) \in Seq(Octets)
      /\ Len(SubSeq(s, 1, n)) = IF 1 <= n THEN n - 1 + 1 ELSE 0
      /\ \A i \in 1..n - 1 + 1 : SubSeq(s, 1, n)[i] = s[1 + i - 1]
  BY <1>3, <1>5, SubSeqProperties
<1> QED BY <1>2, <1>3, <1>4, <1>6

(* At most one of the protocols.                                           *)
Single(bits) == \E p \in Protocols \cup {"none"} : bits \cap Protocols \subseteq {p}

LEMMA UartTyped ==
  ASSUME UartTypes, NEW u \in UartRecord, Single(u.bits), uart' = u,
         uartTx' = uartTx, uartRx' = uartRx, uartCall' = uartCall, uartAsked' = uartAsked
  PROVE  UartTypes'
BY DEF UartTypes, Single

LEMMA InitTypes ==
  /\ global_init \in UartRecord
  /\ \A p \in Protocols \cup {"none"} :
       LET u == [global_init EXCEPT
                  !.handler = IF p = "none" THEN {"tx"} ELSE {},
                  !.bits = CASE p = "none" -> {}
                             [] p = "EERR" -> {"EERR", "ESWM"}
                             [] OTHER -> {p}]
       IN  u \in UartRecord /\ Single(u.bits)
<1>1. global_init \in UartRecord
  BY UartNumbers, UartAssumption DEF global_init, UartRecord
<1>2. ASSUME NEW p \in Protocols \cup {"none"}
      PROVE  LET b == CASE p = "none" -> {} [] p = "EERR" -> {"EERR", "ESWM"} [] OTHER -> {p}
             IN  b \subseteq ModeBits /\ b \cap Protocols \subseteq {p}
  BY DEF Protocols, ModeBits, DuplexBits
<1>3. ASSUME NEW b \in SUBSET ModeBits, NEW h \in SUBSET Handlers
      PROVE  /\ [global_init EXCEPT !.handler = h, !.bits = b] \in UartRecord
             /\ [global_init EXCEPT !.handler = h, !.bits = b].bits = b
  BY <1>1, <1>3 DEF UartRecord
<1>4. {} \in SUBSET Handlers /\ {"tx"} \in SUBSET Handlers
  BY DEF Handlers
<1> QED BY <1>1, <1>2, <1>3, <1>4 DEF Single

LEMMA SettingTypes ==
  ASSUME UartTypes, Setting
  PROVE  UartTypes'
<1>1. uart \in UartRecord /\ Single(uart.bits)
  BY DEF UartTypes, Single
<1>2. ASSUME NEW u \in UartRecord, Single(u.bits), Configure(u) PROVE UartTypes'
  BY <1>2, UartTyped DEF Configure
<1>3. ASSUME NEW x \in SUBSET ModeBits, x \cap Protocols \subseteq uart.bits,
             Configure([uart EXCEPT !.bits = x])
      PROVE  UartTypes'
  <2>1. [uart EXCEPT !.bits = x] \in UartRecord /\ [uart EXCEPT !.bits = x].bits = x
    BY <1>1 DEF UartRecord
  <2>2. Single(x)
    BY <1>1, <1>3 DEF Single
  <2> QED BY <1>2, <1>3, <2>1, <2>2
<1>4. uart.bits \subseteq ModeBits
  BY <1>1 DEF UartRecord
<1>5. ASSUME NEW bits \in SUBSET (ModeBits \ Protocols), NEW b, NEW on, SetOrClear(bits, b, on)
      PROVE  UartTypes'
  <2>1. /\ uart.bits \cup {b} \subseteq ModeBits /\ (uart.bits \cup {b}) \cap Protocols \subseteq uart.bits
        /\ uart.bits \ {b} \subseteq ModeBits
    BY <1>4, <1>5 DEF SetOrClear
  <2>2. \/ Configure([uart EXCEPT !.bits = uart.bits \cup {b}])
        \/ Configure([uart EXCEPT !.bits = uart.bits \ {b}])
    BY <1>5 DEF SetOrClear
  <2> QED BY <1>3, <2>1, <2>2
<1>6. ASSUME NEW b, NEW on, set_loopback(b, on) PROVE UartTypes'
  <2>1. /\ uart.bits \cup {b} \subseteq ModeBits /\ (uart.bits \cup {b}) \cap Protocols \subseteq uart.bits
        /\ uart.bits \ {b} \subseteq ModeBits /\ uart.bits \ {"RLOOP", "ECHO"} \subseteq ModeBits
    BY <1>4, <1>6 DEF set_loopback, LoopBits, ModeBits, Protocols
  <2>2. \/ Configure([uart EXCEPT !.bits = uart.bits \cup {b}])
        \/ Configure([uart EXCEPT !.bits = uart.bits \ {b}])
        \/ Configure([uart EXCEPT !.bits = uart.bits \ {"RLOOP", "ECHO"}])
    BY <1>6 DEF set_loopback
  <2> QED BY <1>3, <2>1, <2>2
<1>7. ASSUME NEW p \in Protocols \cup {"none"}, uart_init(p) PROVE UartTypes'
  <2>1. uart' \in UartRecord /\ Single(uart'.bits)
    BY <1>7, InitTypes DEF uart_init
  <2>2. /\ uartTx' = [uartTx EXCEPT !.fifo = <<>>, !.shift = <<>>]
        /\ uartRx' = [uartRx EXCEPT !.held = 0, !.overrun = FALSE]
        /\ uartCall' = uartCall /\ uartAsked' = uartAsked
    BY <1>7 DEF uart_init
  <2>3. /\ uartTx' \in [fifo : Seq(Octets), shift : Seq(Octets), wire : Seq(Octets)]
        /\ Len(uartTx'.fifo) <= TxFifoSize
    <3>1. <<>> \in Seq(Octets) /\ Len(<<>>) = 0 /\ TxFifoSize \in Nat
      BY EmptySeq, UartNumbers
    <3>2. uartTx'.fifo = <<>>
      BY <2>2 DEF UartTypes
    <3>3. \A f \in Seq(Octets) :
            [uartTx EXCEPT !.fifo = f, !.shift = f]
              \in [fifo : Seq(Octets), shift : Seq(Octets), wire : Seq(Octets)]
      BY DEF UartTypes
    <3>4. uartTx' \in [fifo : Seq(Octets), shift : Seq(Octets), wire : Seq(Octets)]
      BY ONLY <2>2, <3>1, <3>3
    <3> QED BY <3>1, <3>2, <3>4
  <2>4. uartRx' \in [held : 0..RxFifoSize, arrived : Nat, overrun : BOOLEAN, lost : BOOLEAN]
    <3>1. 0 \in 0..RxFifoSize
      BY UartNumbers
    <3>2. \A k \in 0..RxFifoSize :
            [uartRx EXCEPT !.held = k, !.overrun = FALSE]
              \in [held : 0..RxFifoSize, arrived : Nat, overrun : BOOLEAN, lost : BOOLEAN]
      BY DEF UartTypes
    <3> QED BY <2>2, <3>1, <3>2
  <2> QED BY <2>1, <2>2, <2>3, <2>4 DEF UartTypes, Single
<1>8. ASSUME NEW h \in SUBSET Handlers, NEW i \in SUBSET IerBits, NEW e \in SUBSET IemBits
      PROVE  /\ [uart EXCEPT !.handler = h, !.ier = i] \in UartRecord
             /\ [uart EXCEPT !.handler = h, !.iem = e] \in UartRecord
             /\ [uart EXCEPT !.ier = i, !.iem = e] \in UartRecord
             /\ [uart EXCEPT !.handler = h, !.ier = i].bits = uart.bits
             /\ [uart EXCEPT !.handler = h, !.iem = e].bits = uart.bits
             /\ [uart EXCEPT !.ier = i, !.iem = e].bits = uart.bits
  BY <1>1, <1>8, ZenonT(60) DEF UartRecord
<1>9. /\ uart.handler \subseteq Handlers /\ uart.ier \subseteq IerBits /\ uart.iem \subseteq IemBits
      /\ IerBits \subseteq Handlers /\ IemBits \subseteq Handlers
  BY <1>1 DEF UartRecord, Handlers, IerBits, IemBits
<1>10. ASSUME set_tx_handler PROVE UartTypes'
  <2> DEFINE u == [uart EXCEPT !.handler = @ \ {"tx"}, !.size = 0, !.ier = @ \cup {"tx"}]
  <2>1. u \in UartRecord /\ u.bits = uart.bits
    <3>1. \A h \in SUBSET Handlers, k \in 0..MaxSize, i \in SUBSET IerBits :
            /\ [uart EXCEPT !.handler = h, !.size = k, !.ier = i] \in UartRecord
            /\ [uart EXCEPT !.handler = h, !.size = k, !.ier = i].bits = uart.bits
      BY <1>1, ZenonT(60) DEF UartRecord
    <3>2. 0 \in 0..MaxSize /\ uart.handler \ {"tx"} \in SUBSET Handlers
          /\ uart.ier \cup {"tx"} \in SUBSET IerBits
      BY <1>9, UartNumbers DEF IerBits
    <3> QED BY <3>1, <3>2
  <2>2. uart' = u /\ uartTx' = uartTx /\ uartRx' = uartRx /\ uartCall' = uartCall
        /\ uartAsked' = uartAsked
    BY <1>10 DEF set_tx_handler
  <2> HIDE DEF u
  <2> QED BY <1>1, <2>1, <2>2, UartTyped
<1>11. ASSUME NEW h, set_handler(h) \/ set_mode_handler(h) \/ enable_irq(h) \/ disable_irq(h)
       PROVE  UartTypes'
  <2>1. CASE set_handler(h)
    <3>1. h \in IerBits /\ Configure([uart EXCEPT !.handler = uart.handler \cup {h},
                                                 !.ier = uart.ier \cup {h}])
      BY <2>1 DEF set_handler
    <3> QED BY <1>1, <1>2, <1>8, <1>9, <3>1
  <2>2. CASE set_mode_handler(h)
    <3>1. h \in IemBits /\ Configure([uart EXCEPT !.handler = uart.handler \cup {h},
                                                 !.iem = uart.iem \cup {h}])
      BY <2>2 DEF set_mode_handler
    <3> QED BY <1>1, <1>2, <1>8, <1>9, <3>1
  <2>3. CASE enable_irq(h)
    <3>1. Configure([uart EXCEPT !.ier = uart.ier \cup ({h} \cap IerBits),
                                 !.iem = uart.iem \cup ({h} \cap IemBits)])
      BY <2>3 DEF enable_irq
    <3>2. /\ uart.ier \cup ({h} \cap IerBits) \in SUBSET IerBits
          /\ uart.iem \cup ({h} \cap IemBits) \in SUBSET IemBits
      BY <1>9
    <3> QED BY <1>1, <1>2, <1>8, <3>1, <3>2
  <2>4. CASE disable_irq(h)
    <3>1. Configure([uart EXCEPT !.ier = uart.ier \ {h}, !.iem = IemBits])
      BY <2>4 DEF disable_irq
    <3>2. uart.ier \ {h} \in SUBSET IerBits /\ IemBits \in SUBSET IemBits
      BY <1>9
    <3> QED BY <1>1, <1>2, <1>8, <3>1, <3>2
  <2> QED BY <1>11, <2>1, <2>2, <2>3, <2>4
<1>12. /\ DuplexBits \subseteq ModeBits \ Protocols /\ AddressBits \subseteq ModeBits \ Protocols
       /\ GuardBits \subseteq ModeBits \ Protocols /\ {"SYNC"} \subseteq ModeBits \ Protocols
       /\ {"SB"} \subseteq ModeBits \ Protocols
  BY DEF DuplexBits, AddressBits, GuardBits, ModeBits, Protocols
<1> QED BY <1>5, <1>6, <1>7, <1>10, <1>11, <1>12
        DEF Setting, set_duplex, set_address, set_guard, set_usart_mode, set_break, clear_break
LEMMA CallTypes ==
  /\ Free \in UartCallRecord
  /\ \A op \in {"polled_tx", "fill_tx_fifo", "irq_tx", "get_rx", "tx_complete", "get_rx_status"},
        at \in {"lsr", "index"}, n \in Nat :
       [Free EXCEPT !.op = op, !.at = at, !.left = n] \in UartCallRecord
  /\ \A r \in BOOLEAN : [Free EXCEPT !.at = "return", !.result = r] \in UartCallRecord
<1>1. Free \in UartCallRecord
  BY DEF Free, UartCallRecord
<1>2. ASSUME NEW op \in {"polled_tx", "fill_tx_fifo", "irq_tx", "get_rx", "tx_complete",
                         "get_rx_status"},
             NEW at \in {"lsr", "index"}, NEW n \in Nat
      PROVE  [Free EXCEPT !.op = op, !.at = at, !.left = n] \in UartCallRecord
  BY <1>1, <1>2, ZenonT(60) DEF UartCallRecord
<1>3. ASSUME NEW r \in BOOLEAN PROVE [Free EXCEPT !.at = "return", !.result = r] \in UartCallRecord
  BY <1>1, <1>3, ZenonT(60) DEF UartCallRecord
<1> QED BY <1>1, <1>2, <1>3

(* The next message is asked for.                                          *)
LEMMA AskedTypes ==
  ASSUME UartTypes, NEW n \in Nat
  PROVE  /\ uartAsked.messages + 1 \in Nat
         /\ uartAsked.bytes \o Bytes(uartAsked.messages + 1, 0, n) \in Seq(Octets)
<1>1. uartAsked.messages + 1 \in Nat /\ uartAsked.bytes \in Seq(Octets) /\ 0 \in Nat
  BY UartNumbers, Lined
<1> DEFINE b == Bytes(uartAsked.messages + 1, 0, n)
<1>2. b \in Seq(Octets)
  BY <1>1, BytesAre
<1> HIDE DEF b
<1>3. uartAsked.bytes \o b \in Seq(Octets)
  BY <1>1, <1>2, ConcatProperties
<1> QED BY <1>1, <1>3 DEF b

LEMMA CallsTypes ==
  ASSUME UartTypes, UartCall
  PROVE  UartTypes'
<1>1. ASSUME NEW op, NEW n \in 1..MaxSize, polled_tx(op, n) PROVE UartTypes'
  <2>1. /\ uart' = uart /\ uartTx' = uartTx /\ uartRx' = uartRx
        /\ op \in {"polled_tx", "fill_tx_fifo"}
        /\ uartCall' = [Free EXCEPT !.op = op, !.at = "lsr", !.left = n]
    BY <1>1 DEF polled_tx
  <2>2. uartAsked' = [messages |-> uartAsked.messages + 1,
                      bytes |-> IF op = "polled_tx"
                                THEN uartAsked.bytes \o Bytes(uartAsked.messages + 1, 0, n)
                                ELSE uartAsked.bytes]
    BY <1>1 DEF polled_tx
  <2>3. n \in Nat
    BY UartNumbers
  <2>4. uartCall' \in UartCallRecord
    BY <2>1, <2>3, CallTypes
  <2>5. uartAsked'.messages \in Nat /\ uartAsked'.bytes \in Seq(Octets)
    BY <2>2, <2>3, AskedTypes, Lined
  <2>6. uartAsked' \in [messages : Nat, bytes : Seq(Octets)]
    BY ONLY <2>2, <2>5
  <2> QED BY <2>1, <2>4, <2>6 DEF UartTypes
<1>2. ASSUME NEW n \in 1..MaxSize, irq_tx(n) PROVE UartTypes'
  <2>1. /\ uart' = [uart EXCEPT !.message = uartAsked.messages + 1, !.size = n]
        /\ uartTx' = uartTx /\ uartRx' = uartRx
        /\ uartCall' = [Free EXCEPT !.op = "irq_tx", !.at = "index", !.left = n]
        /\ uartAsked' = [messages |-> uartAsked.messages + 1,
                         bytes |-> uartAsked.bytes \o Bytes(uartAsked.messages + 1, 0, n)]
    BY <1>2 DEF irq_tx
  <2>2. n \in Nat /\ n \in 0..MaxSize
    BY UartNumbers
  <2>3. uartCall' \in UartCallRecord
    BY <2>1, <2>2, CallTypes
  <2>4. uartAsked' \in [messages : Nat, bytes : Seq(Octets)]
    BY <2>1, <2>2, AskedTypes
  <2>5. \A m \in Nat, k \in 0..MaxSize :
          /\ [uart EXCEPT !.message = m, !.size = k] \in UartRecord
          /\ [uart EXCEPT !.message = m, !.size = k].bits = uart.bits
    BY ZenonT(60) DEF UartTypes, UartRecord
  <2>6. uart' \in UartRecord /\ uart'.bits = uart.bits
    BY <2>1, <2>2, <2>5, AskedTypes
  <2> QED BY <2>1, <2>3, <2>4, <2>6 DEF UartTypes
<1>3. ASSUME NEW op, NEW n \in Nat, query(op, n) PROVE UartTypes'
  <2>1. /\ uart' = uart /\ uartTx' = uartTx /\ uartRx' = uartRx /\ uartAsked' = uartAsked
        /\ op \in {"get_rx", "tx_complete", "get_rx_status"}
        /\ uartCall' = [Free EXCEPT !.op = op, !.at = "lsr", !.left = n]
    BY <1>3 DEF query
  <2>2. uartCall' \in UartCallRecord
    BY <2>1, CallTypes
  <2> QED BY <2>1, <2>2 DEF UartTypes
<1> QED BY <1>1, <1>2, <1>3, UartNumbers DEF UartCall

(* The registers and fields that the driver's own steps write.             *)
LEMMA FieldTypes ==
  ASSUME UartTypes
  PROVE  /\ \A b \in BOOLEAN : /\ [uart EXCEPT !.status = b] \in UartRecord
                               /\ [uart EXCEPT !.status = b].bits = uart.bits
         /\ \A k \in Nat, b \in BOOLEAN :
              /\ [uart EXCEPT !.idx = k, !.status = b] \in UartRecord
              /\ [uart EXCEPT !.idx = k, !.status = b].bits = uart.bits
         /\ \A k \in Nat, z \in 0..MaxSize, i \in SUBSET IerBits, b \in BOOLEAN :
              /\ [uart EXCEPT !.idx = k, !.size = z, !.ier = i, !.status = b] \in UartRecord
              /\ [uart EXCEPT !.idx = k, !.size = z, !.ier = i, !.status = b].bits = uart.bits
         /\ \A k \in Nat, h \in SUBSET Handlers, i \in SUBSET IerBits :
              /\ [uart EXCEPT !.idx = k, !.handler = h, !.ier = i] \in UartRecord
              /\ [uart EXCEPT !.idx = k, !.handler = h, !.ier = i].bits = uart.bits
<1>1. uart \in UartRecord
  BY DEF UartTypes
<1>2. ASSUME NEW b \in BOOLEAN
      PROVE  [uart EXCEPT !.status = b] \in UartRecord /\ [uart EXCEPT !.status = b].bits = uart.bits
  BY <1>1, <1>2, ZenonT(60) DEF UartRecord
<1>3. ASSUME NEW k \in Nat, NEW b \in BOOLEAN
      PROVE  /\ [uart EXCEPT !.idx = k, !.status = b] \in UartRecord
             /\ [uart EXCEPT !.idx = k, !.status = b].bits = uart.bits
  BY <1>1, <1>3, ZenonT(60) DEF UartRecord
<1>4. ASSUME NEW k \in Nat, NEW z \in 0..MaxSize, NEW i \in SUBSET IerBits, NEW b \in BOOLEAN
      PROVE  /\ [uart EXCEPT !.idx = k, !.size = z, !.ier = i, !.status = b] \in UartRecord
             /\ [uart EXCEPT !.idx = k, !.size = z, !.ier = i, !.status = b].bits = uart.bits
  BY <1>1, <1>4, ZenonT(60) DEF UartRecord
<1>5. ASSUME NEW k \in Nat, NEW h \in SUBSET Handlers, NEW i \in SUBSET IerBits
      PROVE  /\ [uart EXCEPT !.idx = k, !.handler = h, !.ier = i] \in UartRecord
             /\ [uart EXCEPT !.idx = k, !.handler = h, !.ier = i].bits = uart.bits
  BY <1>1, <1>5, ZenonT(60) DEF UartRecord
<1> QED BY <1>2, <1>3, <1>4, <1>5

(* The same for the receive FIFO and the call.                             *)
LEMMA StepFieldTypes ==
  ASSUME UartTypes
  PROVE  /\ \A k \in 0..RxFifoSize, b \in BOOLEAN :
              [uartRx EXCEPT !.held = k, !.overrun = b]
                \in [held : 0..RxFifoSize, arrived : Nat, overrun : BOOLEAN, lost : BOOLEAN]
         /\ \A k \in 0..RxFifoSize :
              [uartRx EXCEPT !.held = k]
                \in [held : 0..RxFifoSize, arrived : Nat, overrun : BOOLEAN, lost : BOOLEAN]
         /\ \A b \in BOOLEAN :
              /\ [uartRx EXCEPT !.overrun = b]
                   \in [held : 0..RxFifoSize, arrived : Nat, overrun : BOOLEAN, lost : BOOLEAN]
              /\ [uartRx EXCEPT !.lost = b]
                   \in [held : 0..RxFifoSize, arrived : Nat, overrun : BOOLEAN, lost : BOOLEAN]
         /\ [uartCall EXCEPT !.at = "lsr"] \in UartCallRecord
         /\ \A n \in Nat : [uartCall EXCEPT !.at = "lsr", !.left = n] \in UartCallRecord
         /\ \A n \in Nat, k \in Nat :
              [uartCall EXCEPT !.at = "lsr", !.left = n, !.char_idx = k] \in UartCallRecord
<1>1. /\ uartRx \in [held : 0..RxFifoSize, arrived : Nat, overrun : BOOLEAN, lost : BOOLEAN]
      /\ uartCall \in UartCallRecord
  BY DEF UartTypes
<1>2. [uartCall EXCEPT !.at = "lsr"] \in UartCallRecord
  BY <1>1, ZenonT(60) DEF UartCallRecord
<1>3. ASSUME NEW n \in Nat PROVE [uartCall EXCEPT !.at = "lsr", !.left = n] \in UartCallRecord
  BY <1>1, <1>3, ZenonT(60) DEF UartCallRecord
<1>4. ASSUME NEW n \in Nat, NEW k \in Nat
      PROVE  [uartCall EXCEPT !.at = "lsr", !.left = n, !.char_idx = k] \in UartCallRecord
  BY <1>1, <1>4, ZenonT(60) DEF UartCallRecord
<1> QED BY <1>1, <1>2, <1>3, <1>4, ZenonT(60)
(* The FIFO and what is asked for, when bytes of a message are written.    *)
LEMMA WrittenTypes ==
  ASSUME UartTypes, NEW m \in Nat, NEW from \in Nat, NEW n \in Nat
  PROVE  /\ Write(uartTx.fifo, Bytes(m, from, n)) \in Seq(Octets)
         /\ Len(Write(uartTx.fifo, Bytes(m, from, n))) <= TxFifoSize
         /\ uartAsked.bytes \o Bytes(m, from, n) \in Seq(Octets)
<1> DEFINE b == Bytes(m, from, n)
<1>1. b \in Seq(Octets) /\ uartTx.fifo \in Seq(Octets) /\ uartAsked.bytes \in Seq(Octets)
  BY BytesAre, Lined
<1> HIDE DEF b
<1>2. Write(uartTx.fifo, b) \in Seq(Octets) /\ Len(Write(uartTx.fifo, b)) <= TxFifoSize
  BY <1>1, WriteFits
<1>3. uartAsked.bytes \o b \in Seq(Octets)
  BY <1>1, ConcatProperties
<1> QED BY <1>2, <1>3 DEF b

LEMMA FifoTypes ==
  ASSUME UartTypes, NEW f \in Seq(Octets), Len(f) <= TxFifoSize
  PROVE  /\ [uartTx EXCEPT !.fifo = f] \in [fifo : Seq(Octets), shift : Seq(Octets), wire : Seq(Octets)]
         /\ Len([uartTx EXCEPT !.fifo = f].fifo) <= TxFifoSize
BY DEF UartTypes

LEMMA StoreTypes ==
  ASSUME UartTypes, store_status
  PROVE  UartTypes'
<1> DEFINE m == uartAsked.messages
           from == uartCall.char_idx
           n == Lower(uartCall.left, TxFifoSize)
           b == Bytes(m, from, n)
           once == uartCall.op = "fill_tx_fifo"
<1>1. m \in Nat /\ from \in Nat /\ n \in Nat /\ uartCall.left - n \in Nat /\ from + n \in Nat
  BY UartNumbers DEF Lower
<1>2. uart' \in UartRecord /\ uart'.bits = uart.bits
  <2>1. uart' = [uart EXCEPT !.status = Collected /\ uartCall.op # "get_rx_status"]
    BY DEF store_status
  <2>2. (Collected /\ uartCall.op # "get_rx_status") \in BOOLEAN
    OBVIOUS
  <2> QED BY <2>1, <2>2, FieldTypes
<1>3. Free \in UartCallRecord
  BY CallTypes
<1>4. CASE uartCall.op \in {"polled_tx", "fill_tx_fifo"} /\ uartCall.thre
  <2>1. /\ uartTx' = [uartTx EXCEPT !.fifo = Write(@, b)] /\ uartRx' = uartRx
        /\ uartAsked' = IF once THEN [uartAsked EXCEPT !.bytes = @ \o b] ELSE uartAsked
        /\ \/ uartCall' = Free
           \/ uartCall' = [uartCall EXCEPT !.at = "lsr", !.left = uartCall.left - n, !.char_idx = from + n]
    BY <1>4 DEF store_status
  <2>2. uartCall' \in UartCallRecord
    <3>1. [uartCall EXCEPT !.at = "lsr", !.left = uartCall.left - n, !.char_idx = from + n]
            \in UartCallRecord
      <4> DEFINE x == uartCall.left - n
                 y == from + n
      <4>1. x \in Nat /\ y \in Nat
        BY <1>1
      <4> HIDE DEF x, y
      <4>2. [uartCall EXCEPT !.at = "lsr", !.left = x, !.char_idx = y] \in UartCallRecord
        BY <4>1, StepFieldTypes
      <4> QED BY <4>2 DEF x, y
    <3> QED BY <1>3, <2>1, <3>1
  <2>3. /\ Write(uartTx.fifo, b) \in Seq(Octets) /\ Len(Write(uartTx.fifo, b)) <= TxFifoSize
        /\ uartAsked.bytes \o b \in Seq(Octets)
    BY <1>1, WrittenTypes
  <2> HIDE DEF b, m, from, n
  <2>4. /\ uartTx' \in [fifo : Seq(Octets), shift : Seq(Octets), wire : Seq(Octets)]
        /\ Len(uartTx'.fifo) <= TxFifoSize
    BY <2>1, <2>3, FifoTypes
  <2>5. uartAsked' \in [messages : Nat, bytes : Seq(Octets)]
    BY <2>1, <2>3 DEF UartTypes
  <2> QED BY <1>2, <2>1, <2>2, <2>4, <2>5 DEF UartTypes
<1>5. CASE uartCall.op \in {"polled_tx", "fill_tx_fifo"} /\ ~uartCall.thre
  <2>1. /\ uartTx' = uartTx /\ uartRx' = uartRx /\ uartAsked' = uartAsked
        /\ uartCall' = Free \/ uartCall' = [uartCall EXCEPT !.at = "lsr"]
    BY <1>5 DEF store_status
  <2>2. uartCall' \in UartCallRecord
    BY <1>3, <2>1, StepFieldTypes
  <2> QED BY <1>2, <2>1, <2>2 DEF UartTypes
<1>6. CASE uartCall.op = "get_rx" /\ uartCall.dr /\ uartCall.left > 0
  <2>1. /\ uartTx' = uartTx /\ uartAsked' = uartAsked
        /\ uartRx' = [uartRx EXCEPT !.held = IF @ > 0 THEN @ - 1 ELSE 0]
        /\ uartCall' = [uartCall EXCEPT !.at = "lsr", !.left = @ - 1]
    BY <1>6 DEF store_status
  <2>2. (IF uartRx.held > 0 THEN uartRx.held - 1 ELSE 0) \in 0..RxFifoSize
    <3>1. uartRx.held \in 0..RxFifoSize
      BY DEF UartTypes
    <3>2. RxFifoSize \in Nat
      BY UartNumbers
    <3> QED BY ONLY <3>1, <3>2
  <2>3. uartCall.left - 1 \in Nat
    BY <1>6, UartNumbers
  <2> QED BY <1>2, <2>1, <2>2, <2>3, StepFieldTypes DEF UartTypes
<1>7. CASE uartCall.op = "get_rx" /\ ~(uartCall.dr /\ uartCall.left > 0)
  <2>1. uartTx' = uartTx /\ uartAsked' = uartAsked /\ uartRx' = uartRx /\ uartCall' = Free
    BY <1>7 DEF store_status
  <2> QED BY <1>2, <1>3, <2>1 DEF UartTypes
<1>8. CASE uartCall.op = "tx_complete"
  <2>1. /\ uartTx' = uartTx /\ uartAsked' = uartAsked /\ uartRx' = uartRx
        /\ uartCall' = [Free EXCEPT !.at = "return", !.result = (uart.size = 0 /\ uartCall.temt)]
    BY <1>8 DEF store_status
  <2>2. (uart.size = 0 /\ uartCall.temt) \in BOOLEAN
    OBVIOUS
  <2> QED BY <1>2, <2>1, <2>2, CallTypes DEF UartTypes
<1>9. CASE uartCall.op = "get_rx_status"
  <2>1. /\ uartTx' = uartTx /\ uartAsked' = uartAsked /\ uartCall' = Free
        /\ uartRx' = [uartRx EXCEPT !.lost = FALSE] \/ uartRx' = uartRx
    BY <1>9 DEF store_status
  <2> QED BY <1>2, <1>3, <2>1, StepFieldTypes DEF UartTypes
<1> QED BY <1>4, <1>5, <1>6, <1>7, <1>8, <1>9 DEF store_status

LEMMA StepTypes ==
  ASSUME UartTypes, UartStep
  PROVE  UartTypes'
<1>1. CASE irq_tx_enable
  <2>1. /\ uart' = [uart EXCEPT !.idx = 0, !.handler = uart.handler \cup {"tx"},
                               !.ier = uart.ier \cup {"tx"}]
        /\ uartCall' = Free /\ uartTx' = uartTx /\ uartRx' = uartRx /\ uartAsked' = uartAsked
    BY <1>1 DEF irq_tx_enable
  <2>2. uart.handler \cup {"tx"} \in SUBSET Handlers /\ uart.ier \cup {"tx"} \in SUBSET IerBits
    BY DEF UartTypes, UartRecord, Handlers, IerBits
  <2>3. uart' \in UartRecord /\ uart'.bits = uart.bits
    <3> DEFINE h == uart.handler \cup {"tx"}
               i == uart.ier \cup {"tx"}
    <3>1. h \in SUBSET Handlers /\ i \in SUBSET IerBits /\ 0 \in Nat
          /\ uart' = [uart EXCEPT !.idx = 0, !.handler = h, !.ier = i]
      BY <2>1, <2>2
    <3> HIDE DEF h, i
    <3>2. /\ [uart EXCEPT !.idx = 0, !.handler = h, !.ier = i] \in UartRecord
          /\ [uart EXCEPT !.idx = 0, !.handler = h, !.ier = i].bits = uart.bits
      BY <3>1, FieldTypes
    <3> QED BY <3>1, <3>2
  <2> QED BY <2>1, <2>3, CallTypes DEF UartTypes
<1>2. CASE read_lsr
  <2>1. /\ uart' = uart /\ uartTx' = uartTx /\ uartAsked' = uartAsked
        /\ uartRx' = [uartRx EXCEPT !.overrun = FALSE]
        /\ uartCall' = [uartCall EXCEPT !.at = "store", !.thre = (uartTx.fifo = <<>>),
                          !.temt = (uartTx.fifo = <<>> /\ uartTx.shift = <<>>),
                          !.dr = (uartRx.held > 0), !.oe = uartRx.overrun, !.seen = uart.status]
    BY <1>2 DEF read_lsr
  <2>2. \A a \in BOOLEAN, b \in BOOLEAN, c \in BOOLEAN, d \in BOOLEAN, e \in BOOLEAN :
          [uartCall EXCEPT !.at = "store", !.thre = a, !.temt = b, !.dr = c, !.oe = d, !.seen = e]
            \in UartCallRecord
    BY ZenonT(60) DEF UartTypes, UartCallRecord
  <2>3. /\ (uartTx.fifo = <<>>) \in BOOLEAN /\ (uartTx.fifo = <<>> /\ uartTx.shift = <<>>) \in BOOLEAN
        /\ (uartRx.held > 0) \in BOOLEAN /\ uartRx.overrun \in BOOLEAN /\ uart.status \in BOOLEAN
    BY DEF UartTypes, UartRecord
  <2>4. uartCall' \in UartCallRecord
    BY ONLY <2>1, <2>2, <2>3
  <2> QED BY <2>1, <2>4, StepFieldTypes DEF UartTypes
<1>3. CASE return
  BY <1>3, CallTypes DEF return, UartTypes
<1> QED BY <1>1, <1>2, <1>3, StoreTypes DEF UartStep

LEMMA TxIrqTypes ==
  ASSUME UartTypes, default_tx_handler
  PROVE  UartTypes'
<1> DEFINE n == IF uart.idx > uart.size THEN TxFifoSize
                ELSE Lower(uart.size - uart.idx, TxFifoSize)
           b == Bytes(uart.message, uart.idx, n)
           st == uart.status \/ uartRx.overrun
<1>1. /\ uartTx' = [uartTx EXCEPT !.fifo = b] /\ uartRx' = [uartRx EXCEPT !.overrun = FALSE]
      /\ uartCall' = uartCall /\ uartAsked' = uartAsked
      /\ \/ uart' = [uart EXCEPT !.idx = uart.idx + n, !.size = 0, !.ier = uart.ier \ {"tx"},
                                !.status = st]
         \/ uart' = [uart EXCEPT !.idx = uart.idx + n, !.status = st]
  BY DEF default_tx_handler
<1>2. n \in Nat /\ n <= TxFifoSize /\ uart.idx + n \in Nat /\ 0 \in 0..MaxSize /\ st \in BOOLEAN
  BY UartNumbers DEF Lower
<1>3. b \in Seq(Octets) /\ Len(b) <= TxFifoSize
  <2>1. uart.message \in Nat /\ uart.idx \in Nat
    BY UartNumbers
  <2> HIDE DEF n
  <2>2. Bytes(uart.message, uart.idx, n) \in Seq(Octets) /\ Len(Bytes(uart.message, uart.idx, n)) = n
    BY <1>2, <2>1, BytesAre
  <2> QED BY <1>2, <2>2
<1>4. uart.ier \ {"tx"} \in SUBSET IerBits
  BY DEF UartTypes, UartRecord
<1> HIDE DEF n, b, st
<1>5. uart' \in UartRecord /\ uart'.bits = uart.bits
  <2> DEFINE k == uart.idx + n
             i == uart.ier \ {"tx"}
  <2>1. k \in Nat /\ i \in SUBSET IerBits
    BY <1>2, <1>4
  <2>2. \/ uart' = [uart EXCEPT !.idx = k, !.size = 0, !.ier = i, !.status = st]
        \/ uart' = [uart EXCEPT !.idx = k, !.status = st]
    BY <1>1
  <2> HIDE DEF k, i
  <2>3. CASE uart' = [uart EXCEPT !.idx = k, !.size = 0, !.ier = i, !.status = st]
    <3>1. \A w \in Nat, z \in 0..MaxSize, x \in SUBSET IerBits, y \in BOOLEAN :
            /\ [uart EXCEPT !.idx = w, !.size = z, !.ier = x, !.status = y] \in UartRecord
            /\ [uart EXCEPT !.idx = w, !.size = z, !.ier = x, !.status = y].bits = uart.bits
      BY FieldTypes
    <3>2. k \in Nat /\ 0 \in 0..MaxSize /\ i \in SUBSET IerBits /\ st \in BOOLEAN
      BY <1>2, <2>1
    <3>3. /\ [uart EXCEPT !.idx = k, !.size = 0, !.ier = i, !.status = st] \in UartRecord
          /\ [uart EXCEPT !.idx = k, !.size = 0, !.ier = i, !.status = st].bits = uart.bits
      BY ONLY <3>1, <3>2, ZenonT(30)
    <3> QED BY <2>3, <3>3
  <2>4. CASE uart' = [uart EXCEPT !.idx = k, !.status = st]
    <3>1. \A x \in Nat, y \in BOOLEAN :
            /\ [uart EXCEPT !.idx = x, !.status = y] \in UartRecord
            /\ [uart EXCEPT !.idx = x, !.status = y].bits = uart.bits
      BY FieldTypes
    <3>2. k \in Nat /\ st \in BOOLEAN
      BY <1>2, <2>1
    <3>3. /\ [uart EXCEPT !.idx = k, !.status = st] \in UartRecord
          /\ [uart EXCEPT !.idx = k, !.status = st].bits = uart.bits
      BY ONLY <3>1, <3>2, ZenonT(30)
    <3> QED BY <2>4, <3>3
  <2> QED BY <2>2, <2>3, <2>4
<1>6. /\ uartTx' \in [fifo : Seq(Octets), shift : Seq(Octets), wire : Seq(Octets)]
      /\ Len(uartTx'.fifo) <= TxFifoSize
  BY <1>1, <1>3, FifoTypes
<1> QED BY <1>1, <1>5, <1>6, StepFieldTypes DEF UartTypes

LEMMA ShiftTypes ==
  ASSUME UartTypes, shift_out
  PROVE  UartTypes'
<1>1. /\ uart' = uart /\ uartRx' = uartRx /\ uartCall' = uartCall /\ uartAsked' = uartAsked
  BY DEF shift_out
<1> DEFINE w == uartTx.wire
           s == uartTx.shift
           f == uartTx.fifo
<1>2. w \in Seq(Octets) /\ s \in Seq(Octets) /\ f \in Seq(Octets) /\ w \o s \in Seq(Octets)
      /\ <<>> \in Seq(Octets) /\ Len(f) <= TxFifoSize /\ Len(f) \in Nat /\ TxFifoSize \in Nat
  BY Lined, ConcatProperties, EmptySeq, LenProperties, UartNumbers DEF UartTypes
<1>3. CASE f = <<>>
  <2>1. uartTx' = [uartTx EXCEPT !.shift = <<>>, !.wire = w \o s]
    BY <1>3 DEF shift_out
  <2>2. \A x \in Seq(Octets), y \in Seq(Octets) :
          /\ [uartTx EXCEPT !.shift = x, !.wire = y]
               \in [fifo : Seq(Octets), shift : Seq(Octets), wire : Seq(Octets)]
          /\ [uartTx EXCEPT !.shift = x, !.wire = y].fifo = uartTx.fifo
    BY DEF UartTypes
  <2>3. /\ uartTx' \in [fifo : Seq(Octets), shift : Seq(Octets), wire : Seq(Octets)]
        /\ uartTx'.fifo = uartTx.fifo
    BY <1>2, <2>1, <2>2
  <2> QED BY <1>1, <2>3 DEF UartTypes
<1>4. CASE f # <<>>
  <2>1. uartTx' = [fifo |-> Tail(f), shift |-> <<Head(f)>>, wire |-> w \o s]
    BY <1>4 DEF shift_out
  <2>2. Tail(f) \in Seq(Octets) /\ Len(Tail(f)) = Len(f) - 1 /\ Head(f) \in Octets
    BY <1>2, <1>4, HeadTailProperties
  <2>3. <<Head(f)>> \in Seq(Octets) /\ Len(Tail(f)) <= TxFifoSize
    BY <1>2, <2>2
  <2>4. /\ uartTx' \in [fifo : Seq(Octets), shift : Seq(Octets), wire : Seq(Octets)]
        /\ uartTx'.fifo = Tail(f)
    BY ONLY <1>2, <2>1, <2>2, <2>3
  <2> QED BY <1>1, <2>3, <2>4 DEF UartTypes
<1> QED BY <1>3, <1>4

LEMMA ArriveTypes ==
  ASSUME UartTypes, arrive
  PROVE  UartTypes'
<1>1. /\ uart' = uart /\ uartTx' = uartTx /\ uartCall' = uartCall /\ uartAsked' = uartAsked
      /\ \/ /\ uartRx.held < RxFifoSize
            /\ uartRx' = [uartRx EXCEPT !.arrived = uartRx.arrived + 1, !.held = uartRx.held + 1]
         \/ uartRx' = [uartRx EXCEPT !.arrived = uartRx.arrived + 1, !.overrun = TRUE, !.lost = TRUE]
  BY DEF arrive
<1>2. uartRx.arrived + 1 \in Nat /\ (uartRx.held < RxFifoSize => uartRx.held + 1 \in 0..RxFifoSize)
  <2>1. uartRx.arrived \in Nat /\ uartRx.held \in 0..RxFifoSize
    BY DEF UartTypes
  <2>2. RxFifoSize \in Nat
    BY UartNumbers
  <2> QED BY ONLY <2>1, <2>2
<1>3. /\ \A a \in Nat, k \in 0..RxFifoSize :
           [uartRx EXCEPT !.arrived = a, !.held = k]
             \in [held : 0..RxFifoSize, arrived : Nat, overrun : BOOLEAN, lost : BOOLEAN]
      /\ \A a \in Nat :
           [uartRx EXCEPT !.arrived = a, !.overrun = TRUE, !.lost = TRUE]
             \in [held : 0..RxFifoSize, arrived : Nat, overrun : BOOLEAN, lost : BOOLEAN]
  BY DEF UartTypes
<1>4. uartRx' \in [held : 0..RxFifoSize, arrived : Nat, overrun : BOOLEAN, lost : BOOLEAN]
  BY <1>1, <1>2, <1>3
<1> QED BY <1>1, <1>4 DEF UartTypes

LEMMA UartTypesSteps ==
  ASSUME UartTypes, [UartNext]_uartVars
  PROVE  UartTypes'
<1>1. CASE rx_handler
  <2>1. /\ uart' = [uart EXCEPT !.status = uart.status \/ uartRx.overrun] /\ uartTx' = uartTx
        /\ uartRx' = [uartRx EXCEPT !.held = 0, !.overrun = FALSE] /\ uartCall' = uartCall
        /\ uartAsked' = uartAsked
    BY <1>1 DEF rx_handler
  <2>2. (uart.status \/ uartRx.overrun) \in BOOLEAN /\ 0 \in 0..RxFifoSize
    BY UartNumbers
  <2>3. uart' \in UartRecord /\ uart'.bits = uart.bits
    BY <2>1, <2>2, FieldTypes
  <2>4. uartRx' \in [held : 0..RxFifoSize, arrived : Nat, overrun : BOOLEAN, lost : BOOLEAN]
    BY <2>1, <2>2, StepFieldTypes
  <2> QED BY <2>1, <2>3, <2>4 DEF UartTypes
<1>2. CASE UNCHANGED uartVars
  BY <1>2 DEF uartVars, UartTypes
<1> QED BY <1>1, <1>2, SettingTypes, CallsTypes, StepTypes, TxIrqTypes, ShiftTypes, ArriveTypes
        DEF UartNext, UartIsr
----------------------------------------------------------------------------
(* The specification.                                                      *)

LEMMA UartInits ==
  ASSUME UartInit
  PROVE  UartInv
<1>1. Single({}) /\ {"tx"} \in SUBSET Handlers /\ <<>> \in Seq(Octets) /\ Len(<<>>) = 0
  BY EmptySeq DEF Single, Handlers
<1>2. [global_init EXCEPT !.handler = {"tx"}] \in UartRecord
  <2>1. global_init \in UartRecord
    BY InitTypes
  <2> QED BY <1>1, <2>1, ZenonT(60) DEF UartRecord
<1>3. uart.bits = {} /\ uart.size = 0 /\ uart.status = FALSE
  BY DEF UartInit, global_init
<1>4. uartCall = Free /\ uartCall \in UartCallRecord /\ ~Sending /\ ~PollsTx /\ uartCall.at = "free"
  BY <1>3, CallTypes DEF UartInit, Sending, PollsTx, Free
<1>5. TxFifoSize \in Nat /\ RxFifoSize \in Nat
  BY UartAssumption
<1>6. UartTypes
  <2>1. /\ uartTx \in [fifo : Seq(Octets), shift : Seq(Octets), wire : Seq(Octets)]
        /\ Len(uartTx.fifo) <= TxFifoSize
    BY <1>1, <1>5 DEF UartInit
  <2>2. uartRx \in [held : 0..RxFifoSize, arrived : Nat, overrun : BOOLEAN, lost : BOOLEAN]
    BY <1>5 DEF UartInit
  <2>3. uartAsked \in [messages : Nat, bytes : Seq(Octets)]
    BY <1>1 DEF UartInit
  <2>4. uart \in UartRecord /\ Single(uart.bits)
    BY <1>1, <1>2, <1>3 DEF UartInit
  <2> QED BY <1>4, <2>1, <2>2, <2>3, <2>4 DEF UartTypes, Single
<1>7. OnLine \o ToWrite = uartAsked.bytes
  <2>1. <<>> \o <<>> = <<>>
    BY <1>1, ConcatEmptySeq
  <2>2. ToWrite = <<>>
    BY <1>4 DEF ToWrite
  <2>3. OnLine = <<>>
    BY <2>1 DEF OnLine, UartInit
  <2> QED BY <2>1, <2>2, <2>3 DEF UartInit
<1>8. Uses /\ Stream /\ Emptied
  BY <1>4, <1>7 DEF Uses, Stream, Emptied
<1>9. Sample /\ NoSilentOverrun
  BY <1>4 DEF Sample, NoSilentOverrun, UartInit
<1> QED BY <1>6, <1>8, <1>9 DEF UartInv

LEMMA UartInvariant == UartSpec => []UartInv
<1>1. ASSUME UartInv, [UartNext]_uartVars PROVE UartInv'
  <2>1. UartTypes' /\ WireInv' /\ OverrunInv'
    BY <1>1, UartTypesSteps, WireSteps, OverrunSteps DEF UartInv, WireInv, OverrunInv
  <2> QED BY <2>1 DEF UartInv, WireInv, OverrunInv
<1> QED BY <1>1, UartInits, PTL DEF UartSpec

(* MSS_UART_tx_complete never says so of a byte that is not on the wire,   *)
(* and the news of a lost byte does not disappear, whatever the sizes of   *)
(* the FIFOs, however many messages and bytes, and whichever of the three  *)
(* ways of sending each message takes.                                     *)
THEOREM UartAlwaysSound == UartSpec => []UartSound
<1>1. ASSUME UartInv PROVE UartSound
  <2>1. ASSUME uartCall.at = "return", uartCall.result,
               uartUpset \cap {"index", "reset", "torn"} = {}
        PROVE  uartTx.wire = uartAsked.bytes
    <3>1. uartTx.fifo = <<>> /\ uartTx.shift = <<>> /\ ~Sending
      BY <1>1, <2>1 DEF UartInv, Emptied
    <3>2. ~PollsTx /\ ToWrite = <<>>
      BY <2>1, <3>1 DEF PollsTx, ToWrite
    <3>3. OnLine \o ToWrite = uartAsked.bytes
      BY <1>1, <2>1 DEF UartInv, Stream
    <3>4. OnLine = uartAsked.bytes
      BY <1>1, <3>2, <3>3, Lined DEF UartInv
    <3>5. uartTx.wire \o (<<>> \o <<>>) = uartTx.wire
      <4>1. uartTx.wire \in Seq(Octets) /\ <<>> \in Seq(Octets)
        BY <1>1, Lined, EmptySeq DEF UartInv
      <4>2. uartTx.wire \o <<>> = uartTx.wire /\ <<>> \o <<>> = <<>>
        BY <4>1, ConcatEmptySeq
      <4> QED BY <4>2
    <3> QED BY <3>1, <3>4, <3>5 DEF OnLine
  <2>2. CompleteMeansSent
    BY <2>1 DEF CompleteMeansSent
  <2> QED BY <1>1, <2>2 DEF UartInv, UartSound
<1> QED BY <1>1, UartInvariant, PTL

(* The UART keeps to its registers and to its FIFOs, and at most one of    *)
(* the LIN, IrDA and smart card protocols is on.                           *)
THEOREM UartTypeAlways == UartSpec => []UartTypeOK
<1>1. ASSUME UartTypes PROVE UartTypeOK
  <2>1. PICK p \in Protocols \cup {"none"} : uart.bits \cap Protocols \subseteq {p}
    BY <1>1 DEF UartTypes
  <2>2. Cardinality(uart.bits \cap Protocols) <= 1
    <3>1. IsFiniteSet({p}) /\ Cardinality({p}) = 1
      BY FS_Singleton
    <3> QED BY <2>1, <3>1, FS_Subset
  <2>3. /\ uart.bits \subseteq ModeBits /\ uart.ier \subseteq IerBits /\ uart.iem \subseteq IemBits
        /\ uart.handler \subseteq Handlers /\ uart.size \in 0..MaxSize /\ uart.status \in BOOLEAN
    BY <1>1 DEF UartTypes, UartRecord
  <2> QED BY <1>1, <2>2, <2>3 DEF UartTypes, UartTypeOK
<1> QED BY <1>1, UartInvariant, PTL DEF UartInv

----------------------------------------------------------------------------
(* The pins.                                                               *)

PortRecord ==
  [port : {"mss", "core"}, out : SUBSET Pins, buffer : SUBSET Pins, ie : SUBSET Pins,
   irq : SUBSET Pins]

AskedRecord ==
  [out : SUBSET Pins, buffer : SUBSET Pins, ie : SUBSET Pins, calls : Nat, edges : Nat]

Accesses ==
  [do : {"load"}, pin : Pins] \cup [do : {"put", "buffer", "ie"}, pin : Pins, on : BOOLEAN]
    \cup [do : {"config"}, pin : Pins, on : BOOLEAN, enable : BOOLEAN]
    \cup [do : {"fill"}, pin : Pins, all : SUBSET Pins] \cup [do : {"ack"}, pins : SUBSET Pins]

PortTypes ==
  /\ gpio \in PortRecord /\ gpioAsked \in AskedRecord
  /\ gpioTodo \in Seq(Accesses) /\ gpioHeld \subseteq Pins /\ gpioTorn \subseteq Pins

(* The level that an access which sets pin p sets it to.                   *)
Level(access, p) == IF access.do = "put" THEN access.on = TRUE ELSE p \in access.all

(* What an access writes of a pin's configuration, and the enable of it.   *)
WritesBuffer(access) == access.do \in {"buffer", "config"}
WritesIe(access) == access.do \in {"ie", "config"}
Enables(access) == IF access.do = "config" THEN access.enable = TRUE ELSE access.on = TRUE

(* A pin is read just before it is written, and nothing else is.           *)
Sequenced(ops) ==
  /\ \A i \in 1..Len(ops) :
       /\ ops[i].do = "load" => i = 1
       /\ ops[i].do = "put" => i = 1 \/ (i = 2 /\ ops[1].do = "load" /\ ops[1].pin = ops[2].pin)
       /\ ops[i].do = "fill" => \A j \in 1..Len(ops) : ops[j].do = "fill"

(* What is left to do leads to what is asked for.                          *)
LeadsTo(ops, asked, torn) ==
  /\ \A i \in 1..Len(ops) : \A p \in Pins \ torn :
       Sets(ops[i], p) => (Level(ops[i], p) <=> p \in asked.out)
  /\ \A i \in 1..Len(ops) :
       /\ WritesBuffer(ops[i]) => (ops[i].on = TRUE <=> ops[i].pin \in asked.buffer)
       /\ WritesIe(ops[i]) => (Enables(ops[i]) <=> ops[i].pin \in asked.ie)

(* What it leaves alone is as it is to be.                                 *)
Untouched(ops, out, buffer, ie, asked, torn) ==
  /\ \A p \in Pins \ torn :
       (p \in out <=> p \in asked.out) \/ \E i \in 1..Len(ops) : Sets(ops[i], p)
  /\ \A p \in Pins :
       /\ (p \in buffer <=> p \in asked.buffer)
          \/ \E i \in 1..Len(ops) : WritesBuffer(ops[i]) /\ ops[i].pin = p
       /\ (p \in ie <=> p \in asked.ie)
          \/ \E i \in 1..Len(ops) : WritesIe(ops[i]) /\ ops[i].pin = p

(* What was read is still right, except for pins a handler set since.      *)
StillHeld ==
  gpioTodo # <<>> /\ gpioTodo[1].do = "put" =>
    \A q \in Register(gpioTodo[1].pin) \ (gpioTorn \cup {gpioTodo[1].pin}) :
      q \in gpioHeld <=> q \in gpioAsked.out

PortInv ==
  /\ PortTypes /\ Sequenced(gpioTodo) /\ LeadsTo(gpioTodo, gpioAsked, gpioTorn)
  /\ Untouched(gpioTodo, gpio.out, gpio.buffer, gpio.ie, gpioAsked, gpioTorn)
  /\ StillHeld

LEMMA WithIs ==
  ASSUME NEW set, NEW p, NEW on \in BOOLEAN
  PROVE  /\ p \in With(set, p, on) <=> on = TRUE
         /\ \A q : q # p => (q \in With(set, p, on) <=> q \in set)
         /\ set \subseteq Pins /\ p \in Pins => With(set, p, on) \subseteq Pins
<1>1. CASE on = TRUE
  BY <1>1, Zenon DEF With
<1>2. CASE on = FALSE
  BY <1>2, Zenon DEF With
<1> QED BY <1>1, <1>2

LEMMA WithinPins ==
  ASSUME NEW set \in SUBSET Pins, NEW p \in Pins, NEW on \in BOOLEAN
  PROVE  With(set, p, on) \subseteq Pins
<1>1. set \subseteq Pins /\ p \in Pins
  OBVIOUS
<1> QED BY <1>1, WithIs, Zenon

LEMMA AccessIs ==
  ASSUME NEW a \in Accesses
  PROVE  /\ a.do \in {"load", "put", "buffer", "ie", "config", "fill", "ack"}
         /\ a.do # "ack" => a.pin \in Pins
         /\ a.do \in {"put", "buffer", "ie", "config"} => a.on \in BOOLEAN
         /\ a.do = "config" => a.enable \in BOOLEAN
         /\ a.do = "fill" => a.all \subseteq Pins
         /\ a.do = "ack" => a.pins \subseteq Pins
BY DEF Accesses

LEMMA AreAccesses ==
  /\ \A p \in Pins : Load(p) \in Accesses
  /\ \A p \in Pins, on \in BOOLEAN : Put(p, on) \in Accesses /\ Cfg("buffer", p, on) \in Accesses
                                     /\ Cfg("ie", p, on) \in Accesses
  /\ \A p \in Pins, all \in SUBSET Pins : Fill(p, all) \in Accesses
  /\ \A set \in SUBSET Pins : Ack(set) \in Accesses
BY DEF Accesses, Load, Put, Cfg, Fill, Ack

LEMMA PortStarts == GpioInit => PortInv
<1> SUFFICES ASSUME GpioInit PROVE PortInv
  OBVIOUS
<1>1. /\ gpio \in PortRecord /\ gpio.out = {} /\ gpio.buffer = {} /\ gpio.ie = {}
  BY DEF GpioInit, PortRecord
<1>2. gpioAsked \in AskedRecord /\ gpioAsked.out = {} /\ gpioAsked.buffer = {} /\ gpioAsked.ie = {}
  BY DEF GpioInit, AskedRecord
<1>3. gpioTodo = <<>> /\ gpioTodo \in Seq(Accesses) /\ Len(gpioTodo) = 0
  BY EmptySeq DEF GpioInit
<1>4. gpioHeld = {} /\ gpioTorn = {}
  BY DEF GpioInit
<1>5. PortTypes
  BY <1>1, <1>2, <1>3, <1>4 DEF PortTypes
<1>6. 1..Len(gpioTodo) = {}
  BY <1>3
<1> QED BY <1>1, <1>2, <1>3, <1>5, <1>6 DEF PortInv, Sequenced, LeadsTo, Untouched, StillHeld

(* A call is right if its accesses are: they set just the pins it asks     *)
(* for, each to the level it is asked to be.                               *)
LEMMA RegisterStill ==
  ASSUME gpio.port' = gpio.port
  PROVE  /\ \A p : Register(p)' = Register(p)
         /\ \A a, p : Sets(a, p)' <=> Sets(a, p)
BY DEF Register, Sets

LEMMA CallHolds ==
  ASSUME PortInv, NEW port, NEW ops \in Seq(Accesses), NEW asked \in AskedRecord,
         GpioCall(port, ops, asked), Sequenced(ops), LeadsTo(ops, asked, {}),
         Untouched(ops, gpioAsked.out, gpioAsked.buffer, gpioAsked.ie, asked, {}),
         ops = <<>> \/ ops[1].do # "put"
  PROVE  PortInv'
<1>1. /\ gpioTodo = <<>> /\ gpioTodo' = ops /\ gpioAsked' = [asked EXCEPT !.calls = @ + 1]
      /\ gpioTorn' = {p \in gpioTorn : \A i \in 1..Len(ops) : ~Sets(ops[i], p)}
      /\ gpio' = gpio /\ gpioHeld' = gpioHeld
  BY DEF GpioCall
<1>2. /\ gpioAsked' \in AskedRecord /\ gpioAsked'.out = asked.out
      /\ gpioAsked'.buffer = asked.buffer /\ gpioAsked'.ie = asked.ie
  BY <1>1 DEF AskedRecord
<1>3. PortTypes'
  BY <1>1, <1>2 DEF PortInv, PortTypes
<1>4. /\ \A p : Register(p)' = Register(p)
      /\ \A a, p : Sets(a, p)' <=> Sets(a, p)
  BY <1>1, RegisterStill
<1>5. 1..Len(gpioTodo) = {}
  BY <1>1
<1>6. /\ \A p \in Pins \ gpioTorn : p \in gpio.out <=> p \in gpioAsked.out
      /\ \A p \in Pins : p \in gpio.buffer <=> p \in gpioAsked.buffer
      /\ \A p \in Pins : p \in gpio.ie <=> p \in gpioAsked.ie
  BY <1>5 DEF PortInv, Untouched
<1>7. Sequenced(gpioTodo)'
  BY <1>1 DEF Sequenced
<1>8. LeadsTo(gpioTodo, gpioAsked, gpioTorn)'
  BY <1>1, <1>2, <1>4 DEF LeadsTo
<1>9. Untouched(gpioTodo, gpio.out, gpio.buffer, gpio.ie, gpioAsked, gpioTorn)'
  <2>1. ASSUME NEW p \in Pins \ gpioTorn'
        PROVE (p \in gpio.out <=> p \in asked.out) \/ \E i \in 1..Len(ops) : Sets(ops[i], p)
    BY <1>1, <1>6 DEF Untouched
  <2>2. ASSUME NEW p \in Pins
        PROVE  /\ (p \in gpio.buffer <=> p \in asked.buffer)
                  \/ \E i \in 1..Len(ops) : WritesBuffer(ops[i]) /\ ops[i].pin = p
               /\ (p \in gpio.ie <=> p \in asked.ie)
                  \/ \E i \in 1..Len(ops) : WritesIe(ops[i]) /\ ops[i].pin = p
    BY <1>6 DEF Untouched
  <2> QED BY <1>1, <1>2, <1>4, <2>1, <2>2 DEF Untouched
<1>10. StillHeld'
  BY <1>1 DEF StillHeld
<1> QED BY <1>3, <1>7, <1>8, <1>9, <1>10 DEF PortInv

AsksFor(ops, asked) ==
  /\ ops \in Seq(Accesses) /\ asked \in AskedRecord
  /\ Sequenced(ops) /\ LeadsTo(ops, asked, {})
  /\ Untouched(ops, gpioAsked.out, gpioAsked.buffer, gpioAsked.ie, asked, {})
  /\ ops = <<>> \/ ops[1].do # "put"

LEMMA SetOutAsks ==
  ASSUME PortInv, NEW p \in Pins, NEW on \in BOOLEAN
  PROVE  AsksFor(<<Load(p), Put(p, on)>>, [gpioAsked EXCEPT !.out = With(@, p, on)])
<1> DEFINE ops == <<Load(p), Put(p, on)>>
           asked == [gpioAsked EXCEPT !.out = With(@, p, on)]
<1>1. /\ ops \in Seq(Accesses) /\ 1..Len(ops) = {1, 2}
      /\ ops[1].do = "load" /\ ops[1].pin = p
      /\ ops[2].do = "put" /\ ops[2].pin = p /\ ops[2].on = on
  <2>1. Load(p) \in Accesses /\ Put(p, on) \in Accesses
    BY AreAccesses
  <2> QED BY <2>1 DEF Load, Put
<1>2. /\ asked.out = With(gpioAsked.out, p, on) /\ asked.out \subseteq Pins
      /\ asked.buffer = gpioAsked.buffer /\ asked.ie = gpioAsked.ie /\ asked \in AskedRecord
  <2>1. gpioAsked \in AskedRecord /\ gpioAsked.out \subseteq Pins
    BY DEF PortInv, PortTypes, AskedRecord
  <2>2. With(gpioAsked.out, p, on) \subseteq Pins
    BY <2>1, WithinPins, Zenon
  <2> QED BY <2>1, <2>2 DEF AskedRecord
<1>3. /\ p \in asked.out <=> on = TRUE
      /\ \A q : q # p => (q \in asked.out <=> q \in gpioAsked.out)
  <2>1. asked.out = With(gpioAsked.out, p, on)
    BY <1>2
  <2>2. p \in With(gpioAsked.out, p, on) <=> on = TRUE
    BY WithIs, Zenon
  <2>3. \A q : q # p => (q \in With(gpioAsked.out, p, on) <=> q \in gpioAsked.out)
    BY WithIs, Zenon
  <2> HIDE DEF asked
  <2> QED BY <2>1, <2>2, <2>3, Zenon
<1> HIDE DEF ops, asked
<1>4. Sequenced(ops)
  BY <1>1 DEF Sequenced
<1>5. /\ \A q : ~Sets(ops[1], q)
      /\ \A q : Sets(ops[2], q) <=> q = p
      /\ Level(ops[2], p) <=> on = TRUE
  BY <1>1 DEF Sets, Level
<1>6. LeadsTo(ops, asked, {})
  BY <1>1, <1>3, <1>5 DEF LeadsTo, WritesBuffer, WritesIe
<1>7. Untouched(ops, gpioAsked.out, gpioAsked.buffer, gpioAsked.ie, asked, {})
  BY <1>1, <1>2, <1>3, <1>5 DEF Untouched
<1>8. AsksFor(ops, asked)
  BY <1>1, <1>2, <1>4, <1>6, <1>7 DEF AsksFor
<1> QED BY <1>8 DEF ops, asked

LEMMA DriveAsks ==
  ASSUME PortInv, NEW p \in Pins, NEW on \in BOOLEAN
  PROVE  AsksFor(<<Load(p), Put(p, on), Cfg("buffer", p, TRUE)>>,
                 [gpioAsked EXCEPT !.out = With(@, p, on), !.buffer = @ \cup {p}])
<1> DEFINE ops == <<Load(p), Put(p, on), Cfg("buffer", p, TRUE)>>
           asked == [gpioAsked EXCEPT !.out = With(@, p, on), !.buffer = @ \cup {p}]
<1>1. /\ ops \in Seq(Accesses) /\ 1..Len(ops) = {1, 2, 3}
      /\ ops[1].do = "load" /\ ops[1].pin = p
      /\ ops[2].do = "put" /\ ops[2].pin = p /\ ops[2].on = on
      /\ ops[3].do = "buffer" /\ ops[3].pin = p /\ ops[3].on = TRUE
  <2>1. Load(p) \in Accesses /\ Put(p, on) \in Accesses /\ Cfg("buffer", p, TRUE) \in Accesses
    BY AreAccesses
  <2> QED BY <2>1 DEF Load, Put, Cfg
<1>2. /\ asked.out = With(gpioAsked.out, p, on) /\ asked.out \subseteq Pins
      /\ asked.buffer = gpioAsked.buffer \cup {p} /\ asked.ie = gpioAsked.ie
      /\ asked \in AskedRecord
  <2>1. gpioAsked \in AskedRecord /\ gpioAsked.out \subseteq Pins
    BY DEF PortInv, PortTypes, AskedRecord
  <2>2. With(gpioAsked.out, p, on) \subseteq Pins
    BY <2>1, WithinPins, Zenon
  <2> QED BY <2>1, <2>2 DEF AskedRecord
<1>3. /\ p \in asked.out <=> on = TRUE
      /\ \A q : q # p => (q \in asked.out <=> q \in gpioAsked.out)
  <2>1. asked.out = With(gpioAsked.out, p, on)
    BY <1>2
  <2>2. p \in With(gpioAsked.out, p, on) <=> on = TRUE
    BY WithIs, Zenon
  <2>3. \A q : q # p => (q \in With(gpioAsked.out, p, on) <=> q \in gpioAsked.out)
    BY WithIs, Zenon
  <2> HIDE DEF asked
  <2> QED BY <2>1, <2>2, <2>3, Zenon
<1> HIDE DEF ops, asked
<1>4. Sequenced(ops)
  BY <1>1 DEF Sequenced
<1>5. /\ \A q : ~Sets(ops[1], q)
      /\ \A q : Sets(ops[2], q) <=> q = p
      /\ \A q : ~Sets(ops[3], q)
      /\ Level(ops[2], p) <=> on = TRUE
  BY <1>1 DEF Sets, Level
<1>6. LeadsTo(ops, asked, {})
  BY <1>1, <1>2, <1>3, <1>5 DEF LeadsTo, WritesBuffer, WritesIe
<1>7. Untouched(ops, gpioAsked.out, gpioAsked.buffer, gpioAsked.ie, asked, {})
  BY <1>1, <1>2, <1>3, <1>5 DEF Untouched, WritesBuffer
<1>8. AsksFor(ops, asked)
  BY <1>1, <1>2, <1>4, <1>6, <1>7 DEF AsksFor
<1> QED BY <1>8 DEF ops, asked

(* Calls that write configuration or interrupts only.                      *)
Configures(ops, asked) ==
  /\ asked.out = gpioAsked.out
  /\ \A i \in 1..Len(ops) : ops[i].do \in {"buffer", "ie", "config", "ack"}
  /\ \A i \in 1..Len(ops) :
       /\ WritesBuffer(ops[i]) => (ops[i].on = TRUE <=> ops[i].pin \in asked.buffer)
       /\ WritesIe(ops[i]) => (Enables(ops[i]) <=> ops[i].pin \in asked.ie)
  /\ \A p \in Pins :
       /\ (p \in gpioAsked.buffer <=> p \in asked.buffer)
          \/ \E i \in 1..Len(ops) : WritesBuffer(ops[i]) /\ ops[i].pin = p
       /\ (p \in gpioAsked.ie <=> p \in asked.ie)
          \/ \E i \in 1..Len(ops) : WritesIe(ops[i]) /\ ops[i].pin = p

LEMMA OthersAsk ==
  ASSUME PortInv, NEW ops \in Seq(Accesses), NEW asked \in AskedRecord, Configures(ops, asked)
  PROVE  AsksFor(ops, asked)
<1>1. \A i \in 1..Len(ops) : \A q : ~Sets(ops[i], q)
  BY DEF Sets, Configures
<1>2. Sequenced(ops)
  BY DEF Sequenced, Configures
<1>3. LeadsTo(ops, asked, {})
  BY <1>1 DEF LeadsTo, Configures
<1>4. Untouched(ops, gpioAsked.out, gpioAsked.buffer, gpioAsked.ie, asked, {})
  BY <1>1 DEF Untouched, Configures
<1>5. ops = <<>> \/ 1 \in 1..Len(ops)
  BY EmptySeq
<1>6. ops = <<>> \/ ops[1].do # "put"
  BY <1>5 DEF Configures
<1> QED BY <1>2, <1>3, <1>4, <1>6 DEF AsksFor

LEMMA Called ==
  ASSUME PortInv, NEW port, NEW ops, NEW asked, GpioCall(port, ops, asked), AsksFor(ops, asked)
  PROVE  PortInv'
BY CallHolds DEF AsksFor

LEMMA OneConfigures ==
  ASSUME PortInv, NEW f \in {"buffer", "ie"}, NEW p \in Pins, NEW on \in BOOLEAN,
         NEW asked \in AskedRecord, asked.out = gpioAsked.out,
         f = "buffer" => asked.buffer = With(gpioAsked.buffer, p, on) /\ asked.ie = gpioAsked.ie,
         f = "ie" => asked.ie = With(gpioAsked.ie, p, on) /\ asked.buffer = gpioAsked.buffer
  PROVE  AsksFor(<<Cfg(f, p, on)>>, asked)
<1> DEFINE ops == <<Cfg(f, p, on)>>
<1>1. /\ ops \in Seq(Accesses) /\ 1..Len(ops) = {1}
      /\ ops[1].do = f /\ ops[1].pin = p /\ ops[1].on = on
  <2>1. Cfg(f, p, on) \in Accesses
    BY AreAccesses
  <2> QED BY <2>1 DEF Cfg
<1>2. \A set : /\ p \in With(set, p, on) <=> on = TRUE
               /\ \A q : q # p => (q \in With(set, p, on) <=> q \in set)
  BY WithIs, Zenon
<1> HIDE DEF ops
<1>3. ASSUME f = "buffer" PROVE AsksFor(ops, asked)
  <2>1. asked.buffer = With(gpioAsked.buffer, p, on) /\ asked.ie = gpioAsked.ie
    BY <1>3
  <2>2. p \in asked.buffer <=> on = TRUE
    <3>1. p \in With(gpioAsked.buffer, p, on) <=> on = TRUE
      BY <1>2, Zenon
    <3> QED BY <2>1, <3>1, Zenon
  <2>3. \A q : q # p => (q \in asked.buffer <=> q \in gpioAsked.buffer)
    BY <1>2, <2>1, Zenon
  <2>4. ops[1].do = "buffer" /\ (ops[1].on = TRUE <=> ops[1].pin \in asked.buffer)
    <3>1. ops[1].on = TRUE <=> on = TRUE
      BY <1>1, Zenon
    <3>2. ops[1].pin \in asked.buffer <=> p \in asked.buffer
      BY <1>1, Zenon
    <3> QED BY <1>1, <1>3, <2>2, <3>1, <3>2, Zenon
  <2>5. \A i \in 1..Len(ops) : ops[i].do \in {"buffer", "ie", "config", "ack"}
    BY <1>1, <2>4
  <2>7. \A i \in 1..Len(ops) :
          /\ WritesBuffer(ops[i]) => (ops[i].on = TRUE <=> ops[i].pin \in asked.buffer)
          /\ WritesIe(ops[i]) => (Enables(ops[i]) <=> ops[i].pin \in asked.ie)
    BY <1>1, <2>4 DEF WritesBuffer, WritesIe, Enables
  <2>6. \A q \in Pins :
          /\ (q \in gpioAsked.buffer <=> q \in asked.buffer)
             \/ \E i \in 1..Len(ops) : WritesBuffer(ops[i]) /\ ops[i].pin = q
          /\ (q \in gpioAsked.ie <=> q \in asked.ie)
             \/ \E i \in 1..Len(ops) : WritesIe(ops[i]) /\ ops[i].pin = q
    BY <1>1, <2>1, <2>3, <2>4 DEF WritesBuffer, WritesIe
  <2>8. Configures(ops, asked)
    BY <2>5, <2>6, <2>7 DEF Configures
  <2> QED BY <1>1, <2>8, OthersAsk
<1>4. ASSUME f = "ie" PROVE AsksFor(ops, asked)
  <2>1. asked.ie = With(gpioAsked.ie, p, on) /\ asked.buffer = gpioAsked.buffer
    BY <1>4
  <2>2. p \in asked.ie <=> on = TRUE
    <3>1. p \in With(gpioAsked.ie, p, on) <=> on = TRUE
      BY <1>2, Zenon
    <3> QED BY <2>1, <3>1, Zenon
  <2>3. \A q : q # p => (q \in asked.ie <=> q \in gpioAsked.ie)
    BY <1>2, <2>1, Zenon
  <2>4. ops[1].do = "ie" /\ (ops[1].on = TRUE <=> ops[1].pin \in asked.ie)
    <3>1. ops[1].on = TRUE <=> on = TRUE
      BY <1>1, Zenon
    <3>2. ops[1].pin \in asked.ie <=> p \in asked.ie
      BY <1>1, Zenon
    <3> QED BY <1>1, <1>4, <2>2, <3>1, <3>2, Zenon
  <2>5. \A i \in 1..Len(ops) : ops[i].do \in {"buffer", "ie", "config", "ack"}
    BY <1>1, <2>4
  <2>7. \A i \in 1..Len(ops) :
          /\ WritesBuffer(ops[i]) => (ops[i].on = TRUE <=> ops[i].pin \in asked.buffer)
          /\ WritesIe(ops[i]) => (Enables(ops[i]) <=> ops[i].pin \in asked.ie)
    BY <1>1, <2>4 DEF WritesBuffer, WritesIe, Enables
  <2>6. \A q \in Pins :
          /\ (q \in gpioAsked.buffer <=> q \in asked.buffer)
             \/ \E i \in 1..Len(ops) : WritesBuffer(ops[i]) /\ ops[i].pin = q
          /\ (q \in gpioAsked.ie <=> q \in asked.ie)
             \/ \E i \in 1..Len(ops) : WritesIe(ops[i]) /\ ops[i].pin = q
    BY <1>1, <2>1, <2>3, <2>4 DEF WritesBuffer, WritesIe
  <2>8. Configures(ops, asked)
    BY <2>5, <2>6, <2>7 DEF Configures
  <2> QED BY <1>1, <2>8, OthersAsk
<1>5. AsksFor(ops, asked)
  BY <1>3, <1>4
<1> QED BY <1>5 DEF ops

LEMMA AskedIs ==
  ASSUME PortInv
  PROVE  /\ gpioAsked \in AskedRecord
         /\ gpioAsked.out \subseteq Pins /\ gpioAsked.buffer \subseteq Pins
         /\ gpioAsked.ie \subseteq Pins
         /\ \A set, p : set \subseteq Pins /\ p \in Pins =>
              \A on \in BOOLEAN : With(set, p, on) \subseteq Pins
<1>1. gpioAsked \in AskedRecord
  BY DEF PortInv, PortTypes
<1>2. \A set, p : set \subseteq Pins /\ p \in Pins =>
        \A on \in BOOLEAN : With(set, p, on) \subseteq Pins
  BY WithIs, Zenon
<1> QED BY <1>1, <1>2 DEF AskedRecord

LEMMA SetOutHolds ==
  ASSUME PortInv, NEW port, NEW p \in Pins, NEW on \in BOOLEAN, SetOut(port, p, on)
  PROVE  PortInv'
BY SetOutAsks, Called DEF SetOut

LEMMA DriveHolds ==
  ASSUME PortInv, NEW port, NEW p \in Pins, NEW state \in Levels, Drive(port, p, state)
  PROVE  PortInv'
<1>1. CASE state = "HIGH_Z"
  <2> DEFINE asked == [gpioAsked EXCEPT !.buffer = @ \ {p}]
  <2>1. asked \in AskedRecord /\ asked.out = gpioAsked.out /\ asked.ie = gpioAsked.ie
        /\ asked.buffer = With(gpioAsked.buffer, p, FALSE)
    BY AskedIs DEF AskedRecord, With
  <2>2. GpioCall(port, <<Cfg("buffer", p, FALSE)>>, asked)
    BY <1>1 DEF Drive
  <2> HIDE DEF asked
  <2>3. AsksFor(<<Cfg("buffer", p, FALSE)>>, asked)
    BY <2>1, OneConfigures
  <2> QED BY <2>2, <2>3, Called
<1>2. CASE state # "HIGH_Z"
  <2> DEFINE on == state = "DRIVE_HIGH"
  <2>1. on \in BOOLEAN
    OBVIOUS
  <2>2. GpioCall(port, <<Load(p), Put(p, on), Cfg("buffer", p, TRUE)>>,
                 [gpioAsked EXCEPT !.out = With(@, p, on), !.buffer = @ \cup {p}])
    BY <1>2 DEF Drive
  <2> HIDE DEF on
  <2>3. AsksFor(<<Load(p), Put(p, on), Cfg("buffer", p, TRUE)>>,
                [gpioAsked EXCEPT !.out = With(@, p, on), !.buffer = @ \cup {p}])
    BY <2>1, DriveAsks
  <2> QED BY <2>2, <2>3, Called
<1> QED BY <1>1, <1>2

LEMMA EnableHolds ==
  ASSUME PortInv, NEW port, NEW p \in Pins, NEW on \in BOOLEAN, Enable(port, p, on)
  PROVE  PortInv'
<1> DEFINE asked == [gpioAsked EXCEPT !.ie = With(@, p, on)]
<1>1. With(gpioAsked.ie, p, on) \subseteq Pins
  BY AskedIs
<1>2. asked \in AskedRecord /\ asked.out = gpioAsked.out /\ asked.buffer = gpioAsked.buffer
      /\ asked.ie = With(gpioAsked.ie, p, on)
  BY <1>1, AskedIs DEF AskedRecord
<1>3. GpioCall(port, <<Cfg("ie", p, on)>>, asked)
  BY DEF Enable
<1> HIDE DEF asked
<1>4. AsksFor(<<Cfg("ie", p, on)>>, asked)
  BY <1>2, OneConfigures
<1> QED BY <1>3, <1>4, Called

LEMMA ConfigHolds ==
  ASSUME PortInv, NEW port, NEW p \in Pins, NEW buffer \in BOOLEAN, NEW ie \in BOOLEAN,
         Config(port, p, buffer, ie)
  PROVE  PortInv'
<1> DEFINE asked == [gpioAsked EXCEPT !.buffer = With(@, p, buffer), !.ie = With(@, p, ie)]
           one == [do |-> "config", pin |-> p, on |-> buffer, enable |-> ie]
           ops == <<one>>
<1>1. With(gpioAsked.ie, p, ie) \subseteq Pins /\ With(gpioAsked.buffer, p, buffer) \subseteq Pins
  BY AskedIs
<1>2. asked \in AskedRecord /\ asked.out = gpioAsked.out
      /\ asked.buffer = With(gpioAsked.buffer, p, buffer) /\ asked.ie = With(gpioAsked.ie, p, ie)
  BY <1>1, AskedIs DEF AskedRecord
<1>3. GpioCall(port, ops, asked)
  BY DEF Config
<1>4. /\ ops \in Seq(Accesses) /\ 1..Len(ops) = {1}
      /\ ops[1].do = "config" /\ ops[1].pin = p /\ ops[1].on = buffer /\ ops[1].enable = ie
  <2>1. one \in Accesses
    BY DEF Accesses
  <2> QED BY <2>1
<1> HIDE DEF asked, ops, one
<1>5. \A set : /\ p \in With(set, p, buffer) <=> buffer = TRUE
               /\ p \in With(set, p, ie) <=> ie = TRUE
               /\ \A q : q # p => /\ q \in With(set, p, buffer) <=> q \in set
                                  /\ q \in With(set, p, ie) <=> q \in set
  BY WithIs, Zenon
<1>6. /\ p \in asked.buffer <=> buffer = TRUE
      /\ p \in asked.ie <=> ie = TRUE
      /\ \A q : q # p => /\ q \in asked.buffer <=> q \in gpioAsked.buffer
                         /\ q \in asked.ie <=> q \in gpioAsked.ie
  <2>1. asked.buffer = With(gpioAsked.buffer, p, buffer) /\ asked.ie = With(gpioAsked.ie, p, ie)
    BY <1>2
  <2>2. /\ p \in With(gpioAsked.buffer, p, buffer) <=> buffer = TRUE
        /\ p \in With(gpioAsked.ie, p, ie) <=> ie = TRUE
    BY <1>5, Zenon
  <2>3. \A q : q # p =>  /\ q \in With(gpioAsked.buffer, p, buffer) <=> q \in gpioAsked.buffer
                         /\ q \in With(gpioAsked.ie, p, ie) <=> q \in gpioAsked.ie
    BY <1>5, Zenon
  <2> QED BY <2>1, <2>2, <2>3, Zenon
<1>7. AsksFor(ops, asked)
  <2>1. /\ ops[1].on = TRUE <=> ops[1].pin \in asked.buffer
        /\ Enables(ops[1]) <=> ops[1].pin \in asked.ie
    BY <1>4, <1>6 DEF Enables
  <2>2. Configures(ops, asked)
    BY <1>2, <1>4, <1>6, <2>1 DEF Configures, WritesBuffer, WritesIe
  <2> QED BY <1>2, <1>4, <2>2, OthersAsk
<1> QED BY <1>3, <1>7, Called

LEMMA AckHolds ==
  ASSUME PortInv, NEW port, NEW set \in SUBSET Pins, GpioCall(port, <<Ack(set)>>, gpioAsked)
  PROVE  PortInv'
<1> DEFINE ops == <<Ack(set)>>
<1>1. ops \in Seq(Accesses) /\ 1..Len(ops) = {1} /\ ops[1].do = "ack"
  <2>1. Ack(set) \in Accesses
    BY AreAccesses
  <2> QED BY <2>1 DEF Ack
<1> HIDE DEF ops
<1>2. AsksFor(ops, gpioAsked)
  <2>1. Configures(ops, gpioAsked)
    BY <1>1 DEF Configures, WritesBuffer, WritesIe
  <2> QED BY <1>1, <2>1, AskedIs, OthersAsk
<1> QED BY <1>2, Called DEF ops

LEMMA PinsAre ==
  /\ NB_OF_GPIO \in Nat \ {0} /\ BusPins \in Nat \ {0} /\ NB_OF_GPIO % BusPins = 0
  /\ \A i \in 1..NB_OF_GPIO : i - 1 \in Pins
  /\ \A p \in Pins : p \in Nat /\ p + 1 \in 1..NB_OF_GPIO
BY GpioAssumption DEF Pins

LEMMA InitHolds == ASSUME PortInv, GPIO_init PROVE PortInv'
<1> DEFINE n == NB_OF_GPIO
           buffers == [i \in 1..n |-> Cfg("buffer", i - 1, FALSE)]
           ies     == [i \in 1..n |-> Cfg("ie", i - 1, FALSE)]
           both    == buffers \o ies
           ops    == both \o <<Ack(Pins)>>
           asked   == [gpioAsked EXCEPT !.buffer = {}, !.ie = {}]
<1>1. n \in Nat
  BY PinsAre
<1>2. /\ buffers \in Seq(Accesses) /\ Len(buffers) = n
      /\ ies \in Seq(Accesses) /\ Len(ies) = n
      /\ \A i \in 1..n : buffers[i] = Cfg("buffer", i - 1, FALSE) /\ ies[i] = Cfg("ie", i - 1, FALSE)
  <2>1. \A i \in 1..n : Cfg("buffer", i - 1, FALSE) \in Accesses /\ Cfg("ie", i - 1, FALSE) \in Accesses
    BY AreAccesses, PinsAre
  <2>2. buffers \in [1..n -> Accesses] /\ ies \in [1..n -> Accesses]
    BY <2>1, Zenon
  <2>3. \A i \in 1..n : buffers[i] = Cfg("buffer", i - 1, FALSE) /\ ies[i] = Cfg("ie", i - 1, FALSE)
    BY Zenon
  <2> HIDE DEF n, buffers, ies
  <2>4. buffers \in Seq(Accesses) /\ Len(buffers) = n
    BY ONLY <1>1, <2>2
  <2>5. ies \in Seq(Accesses) /\ Len(ies) = n
    BY ONLY <1>1, <2>2
  <2> QED BY <2>3, <2>4, <2>5
<1>3. <<Ack(Pins)>> \in Seq(Accesses) /\ Len(<<Ack(Pins)>>) = 1 /\ <<Ack(Pins)>>[1].do = "ack"
  <2>1. Ack(Pins) \in Accesses
    BY AreAccesses
  <2> QED BY <2>1 DEF Ack
<1> HIDE DEF n, buffers, ies
<1>4. /\ both \in Seq(Accesses) /\ Len(both) = n + n
      /\ \A i \in 1..n : both[i] = buffers[i] /\ both[n + i] = ies[i]
      /\ \A i \in 1..(n + n) : i \in 1..n \/ i - n \in 1..n
  <2>1. both \in Seq(Accesses) /\ Len(both) = n + n
    BY <1>1, <1>2, ConcatProperties, SMTT(20)
  <2>2. \A i \in 1..(n + n) : both[i] = IF i <= n THEN buffers[i] ELSE ies[i - n]
    BY <1>1, <1>2, ConcatProperties, SMTT(20)
  <2>3. ASSUME NEW i \in 1..n PROVE both[i] = buffers[i] /\ both[n + i] = ies[i]
    <3>1. i \in 1..(n + n) /\ n + i \in 1..(n + n) /\ i <= n /\ ~(n + i <= n) /\ (n + i) - n = i
      BY <1>1
    <3> QED BY <2>2, <3>1
  <2>4. \A i \in 1..(n + n) : i \in 1..n \/ i - n \in 1..n
    BY <1>1
  <2> QED BY <2>1, <2>3, <2>4
<1> HIDE DEF both
<1>5. /\ ops \in Seq(Accesses) /\ Len(ops) = n + n + 1
      /\ \A i \in 1..(n + n) : ops[i] = both[i]
      /\ ops[n + n + 1].do = "ack"
      /\ \A i \in 1..Len(ops) : i \in 1..(n + n) \/ i = n + n + 1
  <2>1. ops \in Seq(Accesses) /\ Len(ops) = n + n + 1
    BY <1>1, <1>3, <1>4, ConcatProperties
  <2>2. \A i \in 1..Len(ops) : ops[i] = IF i <= n + n THEN both[i] ELSE <<Ack(Pins)>>[i - (n + n)]
    BY <1>1, <1>3, <1>4, <2>1, ConcatProperties
  <2>3. \A i \in 1..(n + n) : i \in 1..Len(ops) /\ i <= n + n
    BY <1>1, <2>1
  <2>4. n + n + 1 \in 1..Len(ops) /\ ~(n + n + 1 <= n + n) /\ (n + n + 1) - (n + n) = 1
    BY <1>1, <2>1
  <2>5. \A i \in 1..Len(ops) : i \in 1..(n + n) \/ i = n + n + 1
    BY <1>1, <2>1
  <2> QED BY <1>3, <2>1, <2>2, <2>3, <2>4, <2>5
<1>6. /\ asked \in AskedRecord /\ asked.out = gpioAsked.out /\ asked.buffer = {} /\ asked.ie = {}
  BY AskedIs DEF AskedRecord
<1>7. GpioCall("core", ops, asked)
  BY DEF GPIO_init, both, buffers, ies, n
<1> HIDE DEF ops, asked
<1>8. \A i \in 1..n : /\ ops[i].do = "buffer" /\ ops[i].pin = i - 1 /\ ops[i].on = FALSE
                      /\ ops[n + i].do = "ie" /\ ops[n + i].pin = i - 1 /\ ops[n + i].on = FALSE
  <2> TAKE i \in 1..n
  <2>1. i \in 1..(n + n) /\ n + i \in 1..(n + n)
    BY <1>1
  <2>2. ops[i] = Cfg("buffer", i - 1, FALSE) /\ ops[n + i] = Cfg("ie", i - 1, FALSE)
    BY <1>2, <1>4, <1>5, <2>1
  <2> QED BY <2>2 DEF Cfg
<1>9. \A i \in 1..Len(ops) :
        /\ ops[i].do \in {"buffer", "ie", "ack"}
        /\ WritesBuffer(ops[i]) => ops[i].on = FALSE
        /\ WritesIe(ops[i]) => ~Enables(ops[i])
  <2> TAKE i \in 1..Len(ops)
  <2>1. CASE i = n + n + 1
    BY <1>5, <2>1 DEF WritesBuffer, WritesIe
  <2>2. CASE i \in 1..n
    BY <1>8, <2>2 DEF WritesBuffer, WritesIe
  <2>3. CASE i - n \in 1..n
    <3>1. i = n + (i - n)
      BY <1>1
    <3>2. ops[n + (i - n)].do = "ie" /\ ops[n + (i - n)].on = FALSE
      BY <1>8, <2>3
    <3> QED BY <3>1, <3>2 DEF WritesBuffer, WritesIe, Enables
  <2> QED BY <1>4, <1>5, <2>1, <2>2, <2>3
<1>10. \A p \in Pins :
         /\ \E i \in 1..Len(ops) : WritesBuffer(ops[i]) /\ ops[i].pin = p
         /\ \E i \in 1..Len(ops) : WritesIe(ops[i]) /\ ops[i].pin = p
  <2> TAKE p \in Pins
  <2>1. p + 1 \in 1..n /\ (p + 1) - 1 = p
    BY PinsAre DEF n
  <2>2. p + 1 \in 1..Len(ops) /\ n + (p + 1) \in 1..Len(ops)
    BY <1>1, <1>5, <2>1
  <2>3. ops[p + 1].do = "buffer" /\ ops[p + 1].pin = p
        /\ ops[n + (p + 1)].do = "ie" /\ ops[n + (p + 1)].pin = p
    BY <1>8, <2>1
  <2> QED BY <2>2, <2>3 DEF WritesBuffer, WritesIe
<1>11. Configures(ops, asked)
  BY <1>6, <1>9, <1>10 DEF Configures
<1>12. AsksFor(ops, asked)
  BY <1>5, <1>6, <1>11, OthersAsk
<1> QED BY <1>7, <1>12, Called

(* Every pin is in the register of some first pin.                         *)
LEMMA FirstsCover ==
  /\ Firsts \in Seq(Pins)
  /\ \A p \in Pins : \E i \in 1..Len(Firsts) : p \div BusPins = Firsts[i] \div BusPins
<1> DEFINE n == NB_OF_GPIO \div BusPins
<1>1. n \in Nat /\ n * BusPins = NB_OF_GPIO
  BY PinsAre, SMTT(60)
<1>2. ASSUME NEW i \in 1..n PROVE (i - 1) * BusPins \in Pins /\ ((i - 1) * BusPins) \div BusPins = i - 1
  BY <1>1, PinsAre, SMTT(60) DEF Pins
<1>3. ASSUME NEW p \in Pins PROVE p \div BusPins \in 0..(n - 1)
  BY <1>1, PinsAre, SMTT(60) DEF Pins
<1>4. Firsts = [i \in 1..n |-> (i - 1) * BusPins]
  BY DEF Firsts
<1> HIDE DEF n
<1>5. Firsts \in Seq(Pins) /\ Len(Firsts) = n /\ \A i \in 1..n : Firsts[i] = (i - 1) * BusPins
  BY <1>1, <1>2, <1>4
<1>6. ASSUME NEW p \in Pins
      PROVE \E i \in 1..Len(Firsts) : p \div BusPins = Firsts[i] \div BusPins
  <2>1. PICK k \in 0..(n - 1) : k = p \div BusPins
    BY <1>3
  <2>2. k + 1 \in 1..n /\ (k + 1) - 1 = k
    BY <1>1
  <2>3. Firsts[k + 1] \div BusPins = k
    BY <1>2, <1>5, <2>2
  <2> QED BY <1>5, <2>1, <2>2, <2>3
<1> QED BY <1>5, <1>6

LEMMA SetOutputsHolds ==
  ASSUME PortInv, NEW all \in SUBSET Pins, GPIO_set_outputs(all)
  PROVE  PortInv'
<1> DEFINE n == Len(Firsts)
           ops == [i \in DOMAIN Firsts |-> Fill(Firsts[i], all)]
           asked == [gpioAsked EXCEPT !.out = all]
<1>1. Firsts \in Seq(Pins) /\ n \in Nat /\ DOMAIN Firsts = 1..n /\ \A i \in 1..n : Firsts[i] \in Pins
  BY FirstsCover, LenProperties, ElementOfSeq
<1>2. /\ ops \in Seq(Accesses) /\ Len(ops) = n
      /\ \A i \in 1..n : ops[i] = Fill(Firsts[i], all)
  <2>1. \A i \in 1..n : Fill(Firsts[i], all) \in Accesses
    BY <1>1, AreAccesses
  <2>2. ops = [i \in 1..n |-> Fill(Firsts[i], all)]
    BY <1>1
  <2>3. ops \in [1..n -> Accesses]
    BY <2>1, <2>2, Zenon
  <2>4. \A i \in 1..n : ops[i] = Fill(Firsts[i], all)
    BY <2>2, Zenon
  <2> HIDE DEF ops, n
  <2>5. ops \in Seq(Accesses) /\ Len(ops) = n
    BY ONLY <1>1, <2>3
  <2> QED BY <2>4, <2>5
<1>3. asked \in AskedRecord /\ asked.out = all /\ asked.buffer = gpioAsked.buffer /\ asked.ie = gpioAsked.ie
  BY AskedIs DEF AskedRecord
<1>4. GpioCall("core", ops, asked) /\ gpio.port = "core"
  BY DEF GPIO_set_outputs, GpioCall
<1> HIDE DEF ops, asked, n
<1>5. \A i \in 1..Len(ops) : ops[i].do = "fill" /\ ops[i].pin = Firsts[i] /\ ops[i].all = all
  BY <1>2 DEF Fill
<1>6. ops = <<>> \/ 1 \in 1..Len(ops)
  BY <1>1, <1>2, EmptySeq
<1>7. Sequenced(ops)
  BY <1>5 DEF Sequenced
<1>8. \A i \in 1..Len(ops) : \A p : Level(ops[i], p) <=> p \in all
  BY <1>5 DEF Level
<1>9. LeadsTo(ops, asked, {})
  BY <1>3, <1>5, <1>8 DEF LeadsTo, WritesBuffer, WritesIe
<1>10. ASSUME NEW p \in Pins PROVE \E i \in 1..Len(ops) : Sets(ops[i], p)
  <2>1. PICK i \in 1..n : p \div BusPins = Firsts[i] \div BusPins
    BY FirstsCover DEF n
  <2>2. p \in Register(Firsts[i])
    BY <1>4, <2>1 DEF Register
  <2> QED BY <1>2, <1>5, <2>1, <2>2 DEF Sets
<1>11. Untouched(ops, gpioAsked.out, gpioAsked.buffer, gpioAsked.ie, asked, {})
  BY <1>3, <1>10 DEF Untouched
<1>12. AsksFor(ops, asked)
  <2>1. ops = <<>> \/ ops[1].do # "put"
    BY <1>5, <1>6
  <2> QED BY <1>2, <1>3, <1>7, <1>9, <1>11, <2>1 DEF AsksFor
<1> QED BY <1>4, <1>12, Called

LEMMA FillHolds ==
  ASSUME PortInv, NEW all \in SUBSET Pins, MSS_GPIO_set_outputs(all)
  PROVE  PortInv'
<1> DEFINE ops == <<Fill(0, all)>>
           asked == [gpioAsked EXCEPT !.out = all]
<1>1. /\ ops \in Seq(Accesses) /\ 1..Len(ops) = {1}
      /\ ops[1].do = "fill" /\ ops[1].pin = 0 /\ ops[1].all = all
  <2>1. 0 \in Pins
    BY PinsAre DEF Pins
  <2>2. Fill(0, all) \in Accesses
    BY <2>1, AreAccesses
  <2> QED BY <2>2 DEF Fill
<1>2. asked \in AskedRecord /\ asked.out = all /\ asked.buffer = gpioAsked.buffer /\ asked.ie = gpioAsked.ie
  BY AskedIs DEF AskedRecord
<1>3. GpioCall("mss", ops, asked) /\ Register(0) = Pins
  BY DEF MSS_GPIO_set_outputs, GpioCall, Register
<1> HIDE DEF ops, asked
<1>4. /\ \A p \in Pins : Sets(ops[1], p)
      /\ \A p : Level(ops[1], p) <=> p \in all
  BY <1>1, <1>3 DEF Sets, Level
<1>5. Sequenced(ops) /\ LeadsTo(ops, asked, {})
  BY <1>1, <1>2, <1>4 DEF Sequenced, LeadsTo, WritesBuffer, WritesIe
<1>6. Untouched(ops, gpioAsked.out, gpioAsked.buffer, gpioAsked.ie, asked, {})
  BY <1>1, <1>2, <1>4 DEF Untouched
<1>7. AsksFor(ops, asked)
  BY <1>1, <1>2, <1>5, <1>6 DEF AsksFor
<1> QED BY <1>3, <1>7, Called

LEMMA ResetHolds == ASSUME PortInv, MSS_GPIO_init PROVE PortInv'
<1>1. /\ gpioTodo = <<>> /\ gpioTodo' = <<>> /\ gpioHeld' = gpioHeld /\ gpioTorn' = {}
      /\ gpio' = [gpio EXCEPT !.out = {}, !.buffer = {}, !.ie = {}, !.irq = {}]
      /\ gpioAsked' = [gpioAsked EXCEPT !.out = {}, !.buffer = {}, !.ie = {}, !.calls = @ + 1]
  BY DEF MSS_GPIO_init
<1>2. gpio \in PortRecord /\ gpioHeld \subseteq Pins /\ gpioAsked \in AskedRecord
  BY DEF PortInv, PortTypes
<1>3. /\ gpio' \in PortRecord /\ gpio'.out = {} /\ gpio'.buffer = {} /\ gpio'.ie = {}
  BY <1>1, <1>2 DEF PortRecord
<1>4. /\ gpioAsked' \in AskedRecord /\ gpioAsked'.out = {} /\ gpioAsked'.buffer = {} /\ gpioAsked'.ie = {}
  <2>1. /\ gpioAsked.calls + 1 \in Nat /\ gpioAsked.edges \in Nat /\ {} \in SUBSET Pins
        /\ gpioAsked = [out |-> gpioAsked.out, buffer |-> gpioAsked.buffer, ie |-> gpioAsked.ie,
                        calls |-> gpioAsked.calls, edges |-> gpioAsked.edges]
    BY <1>2 DEF AskedRecord
  <2>2. gpioAsked' = [out |-> {}, buffer |-> {}, ie |-> {}, calls |-> gpioAsked.calls + 1,
                      edges |-> gpioAsked.edges]
    BY <1>1, <2>1
  <2> QED BY <2>1, <2>2 DEF AskedRecord
<1>5. gpioTodo' \in Seq(Accesses) /\ 1..Len(gpioTodo') = {}
  BY <1>1, EmptySeq
<1>6. PortTypes'
  BY <1>1, <1>2, <1>3, <1>4, <1>5 DEF PortTypes
<1> QED BY <1>1, <1>3, <1>4, <1>5, <1>6 DEF PortInv, Sequenced, LeadsTo, Untouched, StillHeld

LEMMA CallingHolds == PortInv /\ GpioCalling => PortInv'
<1> SUFFICES ASSUME PortInv, GpioCalling PROVE PortInv'
  OBVIOUS
<1>1. CASE MSS_GPIO_init
  BY <1>1, ResetHolds
<1>2. CASE GPIO_init
  BY <1>2, InitHolds
<1>3. ASSUME NEW all \in SUBSET Pins,
             MSS_GPIO_set_outputs(all) \/ GPIO_set_outputs(all) \/ GPIO_clear_all_irq_sources(all)
      PROVE  PortInv'
  BY <1>3, FillHolds, SetOutputsHolds, AckHolds DEF GPIO_clear_all_irq_sources
<1>4. ASSUME NEW p \in Pins,
             \/ MSS_GPIO_enable_irq(p) \/ MSS_GPIO_disable_irq(p) \/ MSS_GPIO_clear_irq(p)
             \/ GPIO_enable_irq(p) \/ GPIO_disable_irq(p) \/ GPIO_clear_irq(p)
      PROVE  PortInv'
  BY <1>4, EnableHolds, AckHolds DEF MSS_GPIO_enable_irq, MSS_GPIO_disable_irq,
     MSS_GPIO_clear_irq, GPIO_enable_irq, GPIO_disable_irq, GPIO_clear_irq
<1>5. ASSUME NEW p \in Pins, NEW on \in BOOLEAN, NEW ie \in BOOLEAN,
             MSS_GPIO_config(p, on, ie) \/ GPIO_config(p, on, ie)
      PROVE  PortInv'
  BY <1>5, ConfigHolds DEF MSS_GPIO_config, GPIO_config
<1>6. ASSUME NEW p \in Pins, NEW on \in BOOLEAN,
             MSS_GPIO_set_output(p, on) \/ GPIO_set_output(p, on)
      PROVE  PortInv'
  BY <1>6, SetOutHolds DEF MSS_GPIO_set_output, GPIO_set_output
<1>7. ASSUME NEW p \in Pins, NEW state \in Levels,
             MSS_GPIO_drive_inout(p, state) \/ GPIO_drive_inout(p, state)
      PROVE  PortInv'
  BY <1>7, DriveHolds DEF MSS_GPIO_drive_inout, GPIO_drive_inout
<1> QED BY <1>1, <1>2, <1>3, <1>4, <1>5, <1>6, <1>7 DEF GpioCalling

----------------------------------------------------------------------------
LEMMA EdgeHolds == ASSUME PortInv, NEW p \in Pins, edge(p) PROVE PortInv'
<1>1. /\ gpio' = [gpio EXCEPT !.irq = @ \cup {p}]
      /\ gpioAsked' = [gpioAsked EXCEPT !.edges = @ + 1]
      /\ gpioTodo' = gpioTodo /\ gpioHeld' = gpioHeld /\ gpioTorn' = gpioTorn
  BY DEF edge
<1>2. gpio \in PortRecord /\ gpioAsked \in AskedRecord
  BY DEF PortInv, PortTypes
<1>3. /\ gpio' \in PortRecord /\ gpio'.out = gpio.out /\ gpio'.buffer = gpio.buffer
      /\ gpio'.ie = gpio.ie /\ gpio'.port = gpio.port
  BY <1>1, <1>2 DEF PortRecord
<1>4. /\ gpioAsked' \in AskedRecord /\ gpioAsked'.out = gpioAsked.out
      /\ gpioAsked'.buffer = gpioAsked.buffer /\ gpioAsked'.ie = gpioAsked.ie
  BY <1>1, <1>2 DEF AskedRecord
<1>5. /\ \A r : Register(r)' = Register(r)
      /\ \A a, r : Sets(a, r)' <=> Sets(a, r)
  BY <1>3, RegisterStill
<1>6. PortTypes'
  BY <1>1, <1>3, <1>4 DEF PortInv, PortTypes
<1>7. Sequenced(gpioTodo)' /\ LeadsTo(gpioTodo, gpioAsked, gpioTorn)'
  BY <1>1, <1>4, <1>5 DEF PortInv, Sequenced, LeadsTo
<1>8. Untouched(gpioTodo, gpio.out, gpio.buffer, gpio.ie, gpioAsked, gpioTorn)'
  BY <1>1, <1>3, <1>4, <1>5 DEF PortInv, Untouched
<1>9. StillHeld'
  BY <1>1, <1>4, <1>5 DEF PortInv, StillHeld
<1> QED BY <1>6, <1>7, <1>8, <1>9 DEF PortInv

(* A handler that sets a pin a write is about to set, or one of a register *)
(* that was read to be written, tears it; any other pin it sets for good.  *)
LEMMA HandlerHolds ==
  ASSUME PortInv, NEW p \in Pins, NEW q \in Pins, NEW on \in BOOLEAN, gpio_handler(p, q, on)
  PROVE  PortInv'
<1> DEFINE n == Len(gpioTodo)
           tears == \E i \in 1..n :
                      \/ Sets(gpioTodo[i], q)
                      \/ i = 1 /\ gpioTodo[i].do = "put" /\ q \in Register(gpioTodo[i].pin)
<1>1. /\ gpio' = [gpio EXCEPT !.irq = @ \ {p}, !.out = With(@, q, on)]
      /\ gpioAsked' = [gpioAsked EXCEPT !.out = With(@, q, on)]
      /\ gpioTorn' = IF tears THEN gpioTorn \cup {q} ELSE gpioTorn \ {q}
      /\ gpioTodo' = gpioTodo /\ gpioHeld' = gpioHeld
  BY DEF gpio_handler
<1>2. /\ gpio \in PortRecord /\ gpioAsked \in AskedRecord
      /\ gpioTodo \in Seq(Accesses) /\ gpioTorn \subseteq Pins /\ n \in Nat
      /\ gpioTodo # <<>> => 1 \in 1..n
  <2>1. gpio \in PortRecord /\ gpioAsked \in AskedRecord /\ gpioTodo \in Seq(Accesses)
        /\ gpioTorn \subseteq Pins
    BY DEF PortInv, PortTypes
  <2> QED BY <2>1, EmptySeq, LenProperties
<1>3. /\ \A set : set \subseteq Pins => With(set, q, on) \subseteq Pins
      /\ \A set : q \in With(set, q, on) <=> on = TRUE
      /\ \A set : \A r : r # q => (r \in With(set, q, on) <=> r \in set)
  <2>1. \A set : set \subseteq Pins => With(set, q, on) \subseteq Pins
    BY WithIs, Zenon
  <2>2. \A set : q \in With(set, q, on) <=> on = TRUE
    BY WithIs, Zenon
  <2>3. \A set : \A r : r # q => (r \in With(set, q, on) <=> r \in set)
    BY WithIs, Zenon
  <2> QED BY <2>1, <2>2, <2>3
<1>4. /\ gpio' \in PortRecord /\ gpio'.out = With(gpio.out, q, on) /\ gpio'.buffer = gpio.buffer
      /\ gpio'.ie = gpio.ie /\ gpio'.port = gpio.port
  <2>1. With(gpio.out, q, on) \subseteq Pins
    BY <1>2, <1>3 DEF PortRecord
  <2> QED BY <1>1, <1>2, <2>1 DEF PortRecord
<1>5. /\ gpioAsked' \in AskedRecord /\ gpioAsked'.out = With(gpioAsked.out, q, on)
      /\ gpioAsked'.buffer = gpioAsked.buffer /\ gpioAsked'.ie = gpioAsked.ie
  <2>1. With(gpioAsked.out, q, on) \subseteq Pins
    BY <1>2, <1>3 DEF AskedRecord
  <2> QED BY <1>1, <1>2, <2>1 DEF AskedRecord
<1>6. /\ \A r : Register(r)' = Register(r)
      /\ \A a, r : Sets(a, r)' <=> Sets(a, r)
  BY <1>4, RegisterStill
<1>7. /\ q \in gpio'.out <=> on = TRUE
      /\ q \in gpioAsked'.out <=> on = TRUE
      /\ \A r : r # q => (r \in gpio'.out <=> r \in gpio.out)
      /\ \A r : r # q => (r \in gpioAsked'.out <=> r \in gpioAsked.out)
  <2>1. q \in gpio'.out <=> on = TRUE
    <3>1. q \in With(gpio.out, q, on) <=> on = TRUE
      BY <1>3, Zenon
    <3>2. gpio'.out = With(gpio.out, q, on)
      BY <1>4
    <3> QED BY <3>1, <3>2, Zenon
  <2>2. q \in gpioAsked'.out <=> on = TRUE
    BY <1>3, <1>5, Zenon
  <2>3. \A r : r # q => (r \in gpio'.out <=> r \in gpio.out)
    BY <1>3, <1>4, Zenon
  <2>4. \A r : r # q => (r \in gpioAsked'.out <=> r \in gpioAsked.out)
    BY <1>3, <1>5, Zenon
  <2> QED BY <2>1, <2>2, <2>3, <2>4
<1>8. gpioTorn' \subseteq Pins /\ (\A r : r # q => (r \in gpioTorn' <=> r \in gpioTorn))
      /\ (q \in gpioTorn' <=> tears)
  BY <1>1, <1>2
<1> HIDE DEF tears
<1>9. PortTypes'
  BY <1>1, <1>4, <1>5, <1>8 DEF PortInv, PortTypes
<1>10. Sequenced(gpioTodo)'
  BY <1>1 DEF PortInv, Sequenced
<1>11. LeadsTo(gpioTodo, gpioAsked, gpioTorn)'
  <2>1. ASSUME NEW i \in 1..n, NEW r \in Pins \ gpioTorn', Sets(gpioTodo[i], r)
        PROVE  Level(gpioTodo[i], r) <=> r \in gpioAsked'.out
    <3>1. r # q
      BY <1>8, <2>1 DEF tears
    <3>2. r \in Pins \ gpioTorn
      BY <1>8, <3>1
    <3> QED BY <1>7, <2>1, <3>1, <3>2 DEF PortInv, LeadsTo
  <2> QED BY <1>1, <1>5, <1>6, <2>1 DEF PortInv, LeadsTo
<1>12. Untouched(gpioTodo, gpio.out, gpio.buffer, gpio.ie, gpioAsked, gpioTorn)'
  <2>1. ASSUME NEW r \in Pins \ gpioTorn'
        PROVE  (r \in gpio'.out <=> r \in gpioAsked'.out) \/ \E i \in 1..n : Sets(gpioTodo[i], r)
    <3>1. CASE r = q
      BY <1>7, <3>1
    <3>2. CASE r # q
      <4>1. r \in Pins \ gpioTorn
        BY <1>8, <3>2
      <4> QED BY <1>7, <3>2, <4>1 DEF PortInv, Untouched
    <3> QED BY <3>1, <3>2
  <2> QED BY <1>1, <1>4, <1>5, <1>6, <2>1 DEF PortInv, Untouched
<1>13. StillHeld'
  <2>1. SUFFICES ASSUME gpioTodo # <<>>, gpioTodo[1].do = "put",
                        NEW r \in Register(gpioTodo[1].pin) \ (gpioTorn' \cup {gpioTodo[1].pin})
                 PROVE  r \in gpioHeld <=> r \in gpioAsked'.out
    BY <1>1, <1>6 DEF StillHeld
  <2>2. r # q
    BY <1>2, <1>8, <2>1 DEF tears
  <2>3. r \in Register(gpioTodo[1].pin) \ (gpioTorn \cup {gpioTodo[1].pin})
    BY <1>8, <2>1, <2>2
  <2> QED BY <1>7, <2>1, <2>2, <2>3 DEF PortInv, StillHeld
<1> QED BY <1>9, <1>10, <1>11, <1>12, <1>13 DEF PortInv

(* The registers after an access, pin by pin.                              *)
LEMMA AccessedIs ==
  ASSUME PortTypes, NEW a \in Accesses, gpio' = Accessed(gpio, a)
  PROVE  /\ gpio' \in PortRecord /\ gpio'.port = gpio.port
         /\ \A p \in Pins : Sets(a, p) => (p \in gpio'.out <=> Level(a, p))
         /\ \A p \in Pins : /\ a.do = "put" /\ p \in Register(a.pin) /\ p # a.pin
                            => (p \in gpio'.out <=> p \in gpioHeld)
         /\ \A p \in Pins : ~(a.do = "put" /\ p \in Register(a.pin)) /\ ~Sets(a, p)
                            => (p \in gpio'.out <=> p \in gpio.out)
         /\ \A p \in Pins : IF WritesBuffer(a) /\ p = a.pin
                            THEN p \in gpio'.buffer <=> a.on = TRUE
                            ELSE p \in gpio'.buffer <=> p \in gpio.buffer
         /\ \A p \in Pins : IF WritesIe(a) /\ p = a.pin
                            THEN p \in gpio'.ie <=> Enables(a)
                            ELSE p \in gpio'.ie <=> p \in gpio.ie
<1>1. gpio \in PortRecord /\ gpioHeld \subseteq Pins
  BY DEF PortTypes
<1>2. /\ a.do \in {"load", "put", "buffer", "ie", "config", "fill", "ack"}
      /\ a.do # "ack" => a.pin \in Pins /\ a.pin \in Register(a.pin) /\ Register(a.pin) \subseteq Pins
      /\ a.do \in {"put", "buffer", "ie", "config"} => a.on \in BOOLEAN
      /\ a.do = "config" => a.enable \in BOOLEAN
      /\ a.do = "fill" => a.all \subseteq Pins
  BY AccessIs DEF Register
<1>3. \A set : a.do \in {"put", "buffer", "ie", "config"} =>
                 /\ a.pin \in With(set, a.pin, a.on) <=> a.on = TRUE
                 /\ \A q : q # a.pin => (q \in With(set, a.pin, a.on) <=> q \in set)
                 /\ set \subseteq Pins => With(set, a.pin, a.on) \subseteq Pins
  <2> SUFFICES ASSUME NEW set, a.do \in {"put", "buffer", "ie", "config"}
               PROVE  /\ a.pin \in With(set, a.pin, a.on) <=> a.on = TRUE
                      /\ \A q : q # a.pin => (q \in With(set, a.pin, a.on) <=> q \in set)
                      /\ set \subseteq Pins => With(set, a.pin, a.on) \subseteq Pins
    OBVIOUS
  <2>1. a.on \in BOOLEAN /\ a.pin \in Pins
    BY <1>2
  <2>2. a.pin \in With(set, a.pin, a.on) <=> a.on = TRUE
    BY <2>1, WithIs, Zenon
  <2>3. \A q : q # a.pin => (q \in With(set, a.pin, a.on) <=> q \in set)
    BY <2>1, WithIs, Zenon
  <2>4. set \subseteq Pins => With(set, a.pin, a.on) \subseteq Pins
    <3> SUFFICES ASSUME set \subseteq Pins PROVE With(set, a.pin, a.on) \subseteq Pins
      OBVIOUS
    <3>1. set \in SUBSET Pins
      OBVIOUS
    <3> QED BY <2>1, <3>1, WithinPins, Zenon
  <2> QED BY <2>2, <2>3, <2>4, Zenon
<1>4. CASE a.do \in {"load", "ack"}
  <2>1. /\ gpio' \in PortRecord /\ gpio'.port = gpio.port
        /\ gpio'.out = gpio.out /\ gpio'.buffer = gpio.buffer /\ gpio'.ie = gpio.ie
    BY <1>1, <1>4 DEF Accessed, PortRecord
  <2> QED BY <1>4, <2>1 DEF Sets, WritesBuffer, WritesIe
<1>5. CASE a.do = "put"
  <2> DEFINE w == With(gpioHeld, a.pin, a.on)
             new == (gpio.out \ Register(a.pin)) \cup (w \cap Register(a.pin))
  <2>1. w \subseteq Pins /\ (a.pin \in w <=> a.on = TRUE)
        /\ \A q : q # a.pin => (q \in w <=> q \in gpioHeld)
    BY <1>1, <1>3, <1>5
  <2>2. gpio' = [gpio EXCEPT !.out = new]
    BY <1>5 DEF Accessed, Stored
  <2> HIDE DEF w
  <2>3. new \subseteq Pins
    BY <1>1, <1>2, <1>5, <2>1 DEF PortRecord
  <2>4. \A q : /\ q \in Register(a.pin) => (q \in new <=> q \in w)
               /\ q \notin Register(a.pin) => (q \in new <=> q \in gpio.out)
    OBVIOUS
  <2> HIDE DEF new
  <2>5. /\ gpio' \in PortRecord /\ gpio'.port = gpio.port /\ gpio'.out = new
        /\ gpio'.buffer = gpio.buffer /\ gpio'.ie = gpio.ie
    BY <1>1, <2>2, <2>3 DEF PortRecord
  <2>6. \A q : Sets(a, q) <=> q = a.pin
    BY <1>5 DEF Sets
  <2>7. Level(a, a.pin) <=> a.on = TRUE
    BY <1>5 DEF Level
  <2>8. \A p \in Pins : Sets(a, p) => (p \in gpio'.out <=> Level(a, p))
    <3>1. a.pin \in gpio'.out <=> a.on = TRUE
      BY <1>2, <1>5, <2>1, <2>4, <2>5
    <3> QED BY <2>6, <2>7, <3>1
  <2> QED BY <1>5, <2>1, <2>4, <2>5, <2>6, <2>8 DEF WritesBuffer, WritesIe
<1>6. CASE a.do = "fill"
  <2> DEFINE new == (gpio.out \ Register(a.pin)) \cup (a.all \cap Register(a.pin))
  <2>1. gpio' = [gpio EXCEPT !.out = new]
    BY <1>6 DEF Accessed
  <2>2. new \subseteq Pins
    BY <1>1, <1>2, <1>6 DEF PortRecord
  <2>3. \A q : /\ q \in Register(a.pin) => (q \in new <=> q \in a.all)
               /\ q \notin Register(a.pin) => (q \in new <=> q \in gpio.out)
    OBVIOUS
  <2> HIDE DEF new
  <2>4. /\ gpio' \in PortRecord /\ gpio'.port = gpio.port /\ gpio'.out = new
        /\ gpio'.buffer = gpio.buffer /\ gpio'.ie = gpio.ie
    BY <1>1, <2>1, <2>2 DEF PortRecord
  <2> QED BY <1>6, <2>3, <2>4 DEF Sets, Level, WritesBuffer, WritesIe
<1>7. CASE a.do = "buffer"
  <2> DEFINE w == With(gpio.buffer, a.pin, a.on)
  <2>1. w \subseteq Pins /\ (a.pin \in w <=> a.on = TRUE)
        /\ \A q : q # a.pin => (q \in w <=> q \in gpio.buffer)
    BY <1>1, <1>3, <1>7 DEF PortRecord
  <2>2. gpio' = [gpio EXCEPT !.buffer = w]
    BY <1>7 DEF Accessed
  <2> HIDE DEF w
  <2>3. /\ gpio' \in PortRecord /\ gpio'.port = gpio.port /\ gpio'.out = gpio.out
        /\ gpio'.buffer = w /\ gpio'.ie = gpio.ie
    BY <1>1, <2>1, <2>2 DEF PortRecord
  <2> QED BY <1>7, <2>1, <2>3 DEF Sets, WritesBuffer, WritesIe
<1>8. CASE a.do = "ie"
  <2> DEFINE w == With(gpio.ie, a.pin, a.on)
  <2>1. w \subseteq Pins /\ (a.pin \in w <=> a.on = TRUE)
        /\ \A q : q # a.pin => (q \in w <=> q \in gpio.ie)
    BY <1>1, <1>3, <1>8 DEF PortRecord
  <2>2. gpio' = [gpio EXCEPT !.ie = w]
    BY <1>8 DEF Accessed
  <2> HIDE DEF w
  <2>3. /\ gpio' \in PortRecord /\ gpio'.port = gpio.port /\ gpio'.out = gpio.out
        /\ gpio'.ie = w /\ gpio'.buffer = gpio.buffer
    BY <1>1, <2>1, <2>2 DEF PortRecord
  <2> QED BY <1>8, <2>1, <2>3 DEF Sets, WritesBuffer, WritesIe, Enables
<1>9. CASE a.do = "config"
  <2> DEFINE w == With(gpio.buffer, a.pin, a.on)
             v == With(gpio.ie, a.pin, a.enable)
  <2>1. w \subseteq Pins /\ (a.pin \in w <=> a.on = TRUE)
        /\ \A q : q # a.pin => (q \in w <=> q \in gpio.buffer)
    BY <1>1, <1>3, <1>9 DEF PortRecord
  <2>2. v \subseteq Pins /\ (a.pin \in v <=> a.enable = TRUE)
        /\ \A q : q # a.pin => (q \in v <=> q \in gpio.ie)
    <3>1. a.enable \in BOOLEAN /\ a.pin \in Pins /\ gpio.ie \in SUBSET Pins
      BY <1>1, <1>2, <1>9 DEF PortRecord
    <3>2. v \subseteq Pins
      BY <3>1, WithinPins, Zenon
    <3>3. a.pin \in v <=> a.enable = TRUE
      BY <3>1, WithIs, Zenon
    <3>4. \A q : q # a.pin => (q \in v <=> q \in gpio.ie)
      BY <3>1, WithIs, Zenon
    <3> HIDE DEF v
    <3> QED BY <3>2, <3>3, <3>4
  <2>3. gpio' = [gpio EXCEPT !.buffer = w, !.ie = v]
    BY <1>9 DEF Accessed
  <2> HIDE DEF w, v
  <2>4. /\ gpio' \in PortRecord /\ gpio'.port = gpio.port /\ gpio'.out = gpio.out
        /\ gpio'.ie = v /\ gpio'.buffer = w
    BY <1>1, <2>1, <2>2, <2>3 DEF PortRecord
  <2> QED BY <1>9, <2>1, <2>2, <2>4 DEF Sets, WritesBuffer, WritesIe, Enables
<1> QED BY <1>2, <1>4, <1>5, <1>6, <1>7, <1>8, <1>9

LEMMA AccessHolds ==
  ASSUME PortInv, gpio_access
  PROVE  PortInv' /\ (Head(gpioTodo) = gpioTodo[1] /\ Len(gpioTodo') = Len(gpioTodo) - 1)
<1> DEFINE n == Len(gpioTodo)
           a == gpioTodo[1]
<1>1. /\ gpioTodo # <<>> /\ gpioTodo' = Tail(gpioTodo) /\ gpio' = Accessed(gpio, Head(gpioTodo))
      /\ gpioHeld' = (IF Head(gpioTodo).do = "load" THEN gpio.out \cap Register(Head(gpioTodo).pin)
                      ELSE gpioHeld)
      /\ gpioAsked' = gpioAsked /\ gpioTorn' = gpioTorn
  BY DEF gpio_access
<1>2. PortTypes /\ gpioTodo \in Seq(Accesses)
  BY DEF PortInv, PortTypes
<1>3. /\ Head(gpioTodo) = a /\ a \in Accesses /\ n \in Nat \ {0} /\ 1 \in 1..n
      /\ gpioTodo' \in Seq(Accesses) /\ Len(gpioTodo') = n - 1
      /\ \A i \in 1..(n - 1) : gpioTodo'[i] = gpioTodo[i + 1] /\ i + 1 \in 1..n
      /\ \A i \in 1..n : i = 1 \/ (i - 1 \in 1..(n - 1) /\ gpioTodo'[i - 1] = gpioTodo[i])
  <2>1. n \in Nat \ {0} /\ Head(gpioTodo) = a
    BY <1>1, <1>2, EmptySeq, HeadTailProperties
  <2>2. 1 \in 1..n /\ a \in Accesses
    BY <1>2, <2>1, ElementOfSeq
  <2>3. gpioTodo' \in Seq(Accesses) /\ Len(gpioTodo') = n - 1
    BY <1>1, <1>2, HeadTailProperties
  <2>4. \A i \in 1..(n - 1) : gpioTodo'[i] = gpioTodo[i + 1]
    BY <1>1, <1>2, HeadTailProperties
  <2>5. \A i \in 1..(n - 1) : i + 1 \in 1..n
    BY <2>1
  <2>6. \A i \in 1..n : i = 1 \/ (i - 1 \in 1..(n - 1) /\ (i - 1) + 1 = i)
    BY <2>1
  <2> QED BY <2>1, <2>2, <2>3, <2>4, <2>5, <2>6
<1>4. /\ gpio' \in PortRecord /\ gpio'.port = gpio.port
      /\ \A p \in Pins : Sets(a, p) => (p \in gpio'.out <=> Level(a, p))
      /\ \A p \in Pins : /\ a.do = "put" /\ p \in Register(a.pin) /\ p # a.pin
                         => (p \in gpio'.out <=> p \in gpioHeld)
      /\ \A p \in Pins : ~(a.do = "put" /\ p \in Register(a.pin)) /\ ~Sets(a, p)
                         => (p \in gpio'.out <=> p \in gpio.out)
      /\ \A p \in Pins : IF WritesBuffer(a) /\ p = a.pin
                         THEN p \in gpio'.buffer <=> a.on = TRUE
                         ELSE p \in gpio'.buffer <=> p \in gpio.buffer
      /\ \A p \in Pins : IF WritesIe(a) /\ p = a.pin
                         THEN p \in gpio'.ie <=> Enables(a)
                         ELSE p \in gpio'.ie <=> p \in gpio.ie
  BY <1>1, <1>2, <1>3, AccessedIs
<1>5. /\ \A r : Register(r)' = Register(r)
      /\ \A c, r : Sets(c, r)' <=> Sets(c, r)
  BY <1>4, RegisterStill
<1>6. /\ Sequenced(gpioTodo) /\ LeadsTo(gpioTodo, gpioAsked, gpioTorn) /\ StillHeld
      /\ Untouched(gpioTodo, gpio.out, gpio.buffer, gpio.ie, gpioAsked, gpioTorn)
  BY DEF PortInv
<1> HIDE DEF n, a
<1>7. PortTypes'
  <2>1. gpioHeld' \subseteq Pins
    BY <1>1, <1>2 DEF PortTypes, PortRecord
  <2> QED BY <1>1, <1>2, <1>3, <1>4, <2>1 DEF PortTypes
<1>8. /\ \A i \in 1..n : gpioTodo[i].do = "load" => i = 1
      /\ \A i \in 1..n : gpioTodo[i].do = "put" => i = 1 \/ (i = 2 /\ a.do = "load" /\ a.pin = gpioTodo[2].pin)
      /\ \A i \in 1..n : gpioTodo[i].do = "fill" => \A j \in 1..n : gpioTodo[j].do = "fill"
  BY <1>6 DEF Sequenced, n, a
<1>9. Sequenced(gpioTodo)'
  <2>1. ASSUME NEW i \in 1..(n - 1)
        PROVE  /\ gpioTodo'[i].do # "load"
               /\ gpioTodo'[i].do = "put" => i = 1
               /\ gpioTodo'[i].do = "fill" => \A j \in 1..(n - 1) : gpioTodo'[j].do = "fill"
    <3>1. gpioTodo'[i] = gpioTodo[i + 1] /\ i + 1 \in 1..n /\ i + 1 # 1 /\ (i + 1 = 2 => i = 1)
      BY <1>3
    <3>2. gpioTodo'[i].do # "load" /\ (gpioTodo'[i].do = "put" => i = 1)
      BY <1>8, <3>1
    <3>3. gpioTodo'[i].do = "fill" => \A j \in 1..(n - 1) : gpioTodo'[j].do = "fill"
      BY <1>3, <1>8, <3>1
    <3> QED BY <3>2, <3>3
  <2> QED BY <1>3, <2>1 DEF Sequenced
<1>10. LeadsTo(gpioTodo, gpioAsked, gpioTorn)'
  <2>1. ASSUME NEW i \in 1..(n - 1)
        PROVE  /\ \A p \in Pins \ gpioTorn : Sets(gpioTodo'[i], p) =>
                    (Level(gpioTodo'[i], p) <=> p \in gpioAsked.out)
               /\ WritesBuffer(gpioTodo'[i]) =>
                    (gpioTodo'[i].on = TRUE <=> gpioTodo'[i].pin \in gpioAsked.buffer)
               /\ WritesIe(gpioTodo'[i]) =>
                    (Enables(gpioTodo'[i]) <=> gpioTodo'[i].pin \in gpioAsked.ie)
    <3>1. gpioTodo'[i] = gpioTodo[i + 1] /\ i + 1 \in 1..n
      BY <1>3
    <3> QED BY <1>6, <3>1 DEF LeadsTo, n
  <2> QED BY <1>1, <1>3, <1>5, <2>1 DEF LeadsTo
<1>11. Untouched(gpioTodo, gpio.out, gpio.buffer, gpio.ie, gpioAsked, gpioTorn)'
  <2>1. ASSUME NEW p \in Pins \ gpioTorn
        PROVE  (p \in gpio'.out <=> p \in gpioAsked.out)
               \/ \E i \in 1..(n - 1) : Sets(gpioTodo'[i], p)
    <3>1. CASE Sets(a, p)
      BY <1>3, <1>4, <1>6, <3>1 DEF LeadsTo, n, a
    <3>2. CASE a.do = "put" /\ p \in Register(a.pin) /\ p # a.pin
      BY <1>1, <1>4, <1>6, <3>2 DEF StillHeld, a
    <3>3. CASE ~Sets(a, p) /\ ~(a.do = "put" /\ p \in Register(a.pin))
      <4>1. p \in gpio'.out <=> p \in gpio.out
        BY <1>4, <3>3
      <4>2. CASE \E i \in 1..n : Sets(gpioTodo[i], p)
        <5>1. PICK i \in 1..n : Sets(gpioTodo[i], p)
          BY <4>2
        <5>2. i # 1
          BY <3>3, <5>1 DEF a
        <5> QED BY <1>3, <5>1, <5>2
      <4> QED BY <1>6, <4>1, <4>2 DEF Untouched, n
    <3> QED BY <3>1, <3>2, <3>3 DEF Sets
  <2>2. ASSUME NEW p \in Pins
        PROVE  (p \in gpio'.buffer <=> p \in gpioAsked.buffer)
               \/ \E i \in 1..(n - 1) : WritesBuffer(gpioTodo'[i]) /\ gpioTodo'[i].pin = p
    <3>1. CASE WritesBuffer(a) /\ p = a.pin
      BY <1>3, <1>4, <1>6, <3>1 DEF LeadsTo, n, a
    <3>2. CASE ~(WritesBuffer(a) /\ p = a.pin)
      <4>1. p \in gpio'.buffer <=> p \in gpio.buffer
        BY <1>4, <3>2
      <4>2. CASE \E i \in 1..n : WritesBuffer(gpioTodo[i]) /\ gpioTodo[i].pin = p
        <5>1. PICK i \in 1..n : WritesBuffer(gpioTodo[i]) /\ gpioTodo[i].pin = p
          BY <4>2
        <5>2. i # 1
          BY <3>2, <5>1 DEF a
        <5> QED BY <1>3, <5>1, <5>2
      <4> QED BY <1>6, <4>1, <4>2 DEF Untouched, n
    <3> QED BY <3>1, <3>2
  <2>3. ASSUME NEW p \in Pins
        PROVE  (p \in gpio'.ie <=> p \in gpioAsked.ie)
               \/ \E i \in 1..(n - 1) : WritesIe(gpioTodo'[i]) /\ gpioTodo'[i].pin = p
    <3>1. CASE WritesIe(a) /\ p = a.pin
      BY <1>3, <1>4, <1>6, <3>1 DEF LeadsTo, n, a
    <3>2. CASE ~(WritesIe(a) /\ p = a.pin)
      <4>1. p \in gpio'.ie <=> p \in gpio.ie
        BY <1>4, <3>2
      <4>2. CASE \E i \in 1..n : WritesIe(gpioTodo[i]) /\ gpioTodo[i].pin = p
        <5>1. PICK i \in 1..n : WritesIe(gpioTodo[i]) /\ gpioTodo[i].pin = p
          BY <4>2
        <5>2. i # 1
          BY <3>2, <5>1 DEF a
        <5> QED BY <1>3, <5>1, <5>2
      <4> QED BY <1>6, <4>1, <4>2 DEF Untouched, n
    <3> QED BY <3>1, <3>2
  <2> QED BY <1>1, <1>3, <1>5, <2>1, <2>2, <2>3 DEF Untouched
<1>12. StillHeld'
  <2>1. SUFFICES ASSUME gpioTodo' # <<>>, gpioTodo'[1].do = "put",
                        NEW q \in Register(gpioTodo'[1].pin) \ (gpioTorn \cup {gpioTodo'[1].pin})
                 PROVE  q \in gpioHeld' <=> q \in gpioAsked.out
    BY <1>1, <1>5 DEF StillHeld
  <2>2. 1 \in 1..(n - 1) /\ gpioTodo'[1] = gpioTodo[2] /\ 2 \in 1..n
    <3>1. Len(gpioTodo') \in Nat \ {0}
      BY <1>3, <2>1, EmptySeq
    <3>2. 1 \in 1..(n - 1) /\ 1 + 1 = 2
      BY <1>3, <3>1
    <3> QED BY <1>3, <3>2
  <2>3. a.do = "load" /\ a.pin = gpioTodo'[1].pin
    BY <1>8, <2>1, <2>2
  <2>4. gpioHeld' = gpio.out \cap Register(a.pin)
    BY <1>1, <1>3, <2>3
  <2>5. q \in Pins \ gpioTorn /\ q \in Register(a.pin) /\ q # a.pin
    BY <2>1, <2>3 DEF Register
  <2>6. ASSUME NEW i \in 1..n PROVE ~Sets(gpioTodo[i], q)
    <3>1. gpioTodo[i].do # "fill"
      BY <1>3, <1>8, <2>3 DEF a
    <3>2. gpioTodo[i].do = "put" => gpioTodo[i].pin = a.pin
      BY <1>8, <2>3 DEF a
    <3> QED BY <2>5, <3>1, <3>2 DEF Sets
  <2>7. q \in gpio.out <=> q \in gpioAsked.out
    BY <1>6, <2>5, <2>6 DEF Untouched, n
  <2> QED BY <2>4, <2>5, <2>7
<1> QED BY <1>3, <1>7, <1>9, <1>10, <1>11, <1>12 DEF PortInv, n, a

LEMMA PortSteps == PortInv /\ [GpioNext]_gpioVars => PortInv'
<1> SUFFICES ASSUME PortInv, [GpioNext]_gpioVars PROVE PortInv'
  OBVIOUS
<1>1. CASE UNCHANGED gpioVars
  <2>1. UNCHANGED <<gpio, gpioTodo, gpioHeld, gpioAsked, gpioTorn>>
    BY <1>1 DEF gpioVars
  <2>2. \A r : Register(r)' = Register(r)
    BY <2>1, RegisterStill
  <2>3. \A a, r : Sets(a, r)' <=> Sets(a, r)
    BY <2>1, RegisterStill
  <2> QED BY <2>1, <2>2, <2>3 DEF PortInv, PortTypes, Sequenced, LeadsTo, Untouched, StillHeld
<1>2. CASE GpioCalling
  BY <1>2, CallingHolds
<1>3. CASE gpio_access
  BY <1>3, AccessHolds
<1>4. ASSUME NEW p \in Pins, edge(p) PROVE PortInv'
  BY <1>4, EdgeHolds
<1>5. ASSUME NEW p \in Pins, NEW q \in Pins, NEW on \in BOOLEAN, gpio_handler(p, q, on)
      PROVE  PortInv'
  BY <1>5, HandlerHolds
<1> QED BY <1>1, <1>2, <1>3, <1>4, <1>5 DEF GpioNext

(* Every register, what was read and what is torn hold pins of the port.   *)
THEOREM PortAlwaysTyped == GpioSpec => []GpioTypeOK
<1>1. PortInv => GpioTypeOK
  BY DEF PortInv, PortTypes, PortRecord, GpioTypeOK
<1> QED BY <1>1, PortStarts, PortSteps, PTL DEF GpioSpec

(* However many pins a port has and however wide its registers are: when a *)
(* call ends every pin has the level, the output buffer and the interrupt  *)
(* enable that were last asked for, by the thread or by a handler between  *)
(* two of its accesses, but for the levels of torn pins; and no buffer     *)
(* is enabled before its pin has its level.                                *)
THEOREM PinsAlwaysAsAsked == GpioSpec => PinsAsAsked
<1> DEFINE Step == gpio_access =>
       /\ gpioTodo' = <<>> =>
            /\ \A p \in Pins \ gpioTorn : p \in gpio'.out <=> p \in gpioAsked.out
            /\ gpio'.buffer = gpioAsked.buffer /\ gpio'.ie = gpioAsked.ie
       /\ Head(gpioTodo).do = "buffer" /\ Len(gpioTodo) = 1 =>
            \A p \in (gpio'.buffer \ gpio.buffer) \ gpioTorn :
              p \in gpio.out <=> p \in gpioAsked.out
<1>1. ASSUME PortInv, gpio_access
      PROVE  Step
  <2>1. PortInv' /\ Head(gpioTodo) = gpioTodo[1] /\ gpioAsked' = gpioAsked /\ gpioTorn' = gpioTorn
    BY <1>1, AccessHolds DEF gpio_access
  <2>2. ASSUME gpioTodo' = <<>>
        PROVE  /\ \A p \in Pins \ gpioTorn : p \in gpio'.out <=> p \in gpioAsked.out
               /\ gpio'.buffer = gpioAsked.buffer /\ gpio'.ie = gpioAsked.ie
    <3>1. 1..Len(gpioTodo') = {}
      BY <2>2
    <3>2. /\ \A p \in Pins \ gpioTorn : p \in gpio'.out <=> p \in gpioAsked.out
          /\ \A p \in Pins : p \in gpio'.buffer <=> p \in gpioAsked.buffer
          /\ \A p \in Pins : p \in gpio'.ie <=> p \in gpioAsked.ie
      BY <2>1, <3>1 DEF PortInv, Untouched
    <3>3. /\ gpio'.buffer \subseteq Pins /\ gpio'.ie \subseteq Pins
          /\ gpioAsked.buffer \subseteq Pins /\ gpioAsked.ie \subseteq Pins
      BY <2>1 DEF PortInv, PortTypes, PortRecord, AskedRecord
    <3> QED BY <3>2, <3>3
  <2>3. ASSUME Head(gpioTodo).do = "buffer", Len(gpioTodo) = 1,
               NEW p \in (gpio'.buffer \ gpio.buffer) \ gpioTorn
        PROVE  p \in gpio.out <=> p \in gpioAsked.out
    <3>1. p \in Pins
      BY <2>1 DEF PortInv, PortTypes, PortRecord
    <3>2. \A i \in 1..Len(gpioTodo) : ~Sets(gpioTodo[i], p)
      BY <2>1, <2>3 DEF Sets
    <3> QED BY <1>1, <3>1, <3>2 DEF PortInv, Untouched
  <2> QED BY <2>2, <2>3
<1>2. PortInv /\ [GpioNext]_gpioVars => [Step]_gpioVars
  BY <1>1
<1>3. GpioSpec => []PortInv
  BY PortStarts, PortSteps, PTL DEF GpioSpec
<1> QED BY <1>2, <1>3, PTL DEF GpioSpec, PinsAsAsked
=============================================================================
