------------------------------- MODULE MssNvm -------------------------------
(***************************************************************************)
(* The driver of the embedded non-volatile memory (mss_nvm.c): two blocks  *)
(* of pages that the Cortex-M3 shares with the fabric and the System       *)
(* Controller (external).  A call checks its range against the reserved    *)
(* pages and the protection the design gave to four regions, asks for the  *)
(* blocks, writes page after page and gives the blocks back.               *)
(*                                                                         *)
(* Offsets and lengths are bytes, as in the code.                          *)
(***************************************************************************)
EXTENDS Integers

CONSTANTS
  NvmDevices,   \* devices considered
  NvmOffsets,   \* offsets the application calls with
  NvmLengths,   \* lengths it calls with
  NvmCalls      \* bound on the calls

ASSUME NvmAssumption ==
  /\ NvmDevices \subseteq {"005", "010", "025-050", "060", "090-150"}
  /\ NvmOffsets \subseteq 0..(2^19 - 1) /\ NvmLengths \subseteq 0..(2^19)
  /\ NvmCalls \in Nat

VARIABLES
  nvm,       \* the call in progress: its locals, and the statics
  envm,      \* who has access to each block, and ENVM_CR
  nvmDone,   \* history: pages programmed, verified and locked in this call
  nvmCalled  \* calls so far

nvmVars == <<nvm, envm, nvmDone, nvmCalled>>

BYTES_PER_PAGE     == 128
PAGES_PER_BLOCK    == 2048
NVM1_BOTTOM_OFFSET == 262144
NVM_TOP_OFFSET     == 524287

READ_ONLY     == "read"
WRITE_ONLY    == "write"
NO_READ_WRITE == "none"
WRITE_ENABLED == "both"

Least2(a, b) == IF a < b THEN a ELSE b

----------------------------------------------------------------------------
(* check_protection_reserved_nvm.  Region [u |-> user field, lo |-> first  *)
(* offset, hi |-> last one]; the regions, the first reserved offset and    *)
(* the last offset of each device.                                         *)

Region(u, lo, hi) == [u |-> u, lo |-> lo, hi |-> hi]

Map005  == [regions  |-> {Region(0, 0, 4095), Region(1, 126976, 131071)},
            reserved |-> 129024, top |-> 131071]
Map010  == [regions  |-> {Region(0, 0, 4095), Region(1, 258048, 262143)},
            reserved |-> 260096, top |-> 262143]
Map060  == [regions  |-> {Region(0, 0, 4095), Region(3, 249856, 253951)},
            reserved |-> 253952, top |-> 262143]
Map090  == [regions  |-> {Region(0, 0, 4095), Region(3, 503808, 507903),
                          Region(2, 507904, 511999), Region(1, 512000, 516095)},
            reserved |-> 516096, top |-> 524287]

MapOf(device) ==
  CASE device = "005" -> Map005 [] device = "060" -> Map060
    [] device = "090-150" -> Map090 [] OTHER -> Map010

Bug_Meets(r, offset, last) == r.lo <= offset /\ offset <= r.hi

(* The range starts in the region, or before it and ends in or after it.   *)
Meets(r, offset, last) ==
  (r.lo <= offset /\ offset <= r.hi) \/ (offset < r.lo /\ last >= r.lo)

protection_check(protect_user, length) == ~(protect_user = READ_ONLY /\ length = 0)

LastOf(offset, length) == IF length = 0 THEN offset ELSE offset + length - 1

check_protection_reserved_nvm(device, protect, offset, length) ==
  LET map  == MapOf(device)
      last == LastOf(offset, length)
  IN  IF \E r \in map.regions : /\ protect[r.u] # WRITE_ENABLED
                                 /\ Meets(r, offset, last)
                                 /\ protection_check(protect[r.u], length) THEN "PROTECTION_ERROR"
      ELSE IF last > map.top THEN "INVALID_PARAMETER"
      ELSE IF Meets(Region(0, map.reserved, map.top), offset, last) THEN "PROTECTION_ERROR"
      ELSE "SUCCESS"

(* g_do_not_lock_page: some pages may not be read back after a lock.       *)
DoNotLock(device, protect, offset) ==
  LET hidden(u) == protect[u] \in {WRITE_ONLY, NO_READ_WRITE}
  IN  CASE device \in {"005", "010", "025-050"} -> hidden(0) \/ hidden(1)
        [] device = "090-150" -> hidden(0) /\ offset < NVM1_BOTTOM_OFFSET
        [] OTHER -> FALSE

----------------------------------------------------------------------------
(* Pages. *)

(* What is left of the page at offset, or of the data. *)
get_remaining_page_length(offset, length) ==
  IF (offset + length) \div BYTES_PER_PAGE >= (offset \div BYTES_PER_PAGE) + 1
  THEN BYTES_PER_PAGE - (offset % BYTES_PER_PAGE) ELSE length

(* fill_wd_buffer: where each byte of the write buffer comes from.  Words  *)
(* the data do not fill are first copied from the page; a full page needs  *)
(* none.                                                                   *)
fill_wd_buffer(offset, length) ==
  LET wd    == offset % BYTES_PER_PAGE
      lead  == (wd \div 4) + IF wd % 4 > 0 THEN 1 ELSE 0
      first == ((offset + length) % BYTES_PER_PAGE) \div 4
  IN  [i \in 0..(BYTES_PER_PAGE - 1) |->
        IF wd <= i /\ i < wd + length THEN "data"
        ELSE IF length # BYTES_PER_PAGE /\ (i \div 4 < lead \/ i \div 4 >= first) THEN "page"
        ELSE "stale"]

(* Status bits of the controller after a command. *)
Outcomes == {{}, {"WRCNT_OVER"}, {"VERIFY_FAIL", "WRCNT_OVER"}, {"PEFAIL_LOCK"},
             {"WR_DENIED", "PEFAIL_LOCK"}}

get_error_code(bits) ==
  IF "WR_DENIED" \in bits THEN "PROTECTION_ERROR"
  ELSE IF "PEFAIL_LOCK" \in bits THEN "PAGE_LOCK_ERROR"
  ELSE IF "VERIFY_FAIL" \in bits THEN "VERIFY_FAILURE"
  ELSE IF "WRCNT_OVER" \in bits THEN "WRITE_THRESHOLD_WARNING" ELSE "SUCCESS"

Errors(bits) == bits \ {"WRCNT_OVER"} # {}

GoesOn(status) == status \in {"SUCCESS", "WRITE_THRESHOLD_WARNING"}

----------------------------------------------------------------------------
(* The calls. *)

Resting == [op |-> "none", at |-> "free", offset |-> 0, length |-> 0, page |-> 0,
            remaining |-> 0, lock |-> FALSE, asked |-> FALSE, status |-> "SUCCESS",
            warning |-> FALSE, locks |-> {}]

Valid(offset, length, op) == offset < NVM_TOP_OFFSET /\ (op # "count" => length > 0)

(* The lock is dropped, with a warning, where it cannot be kept; on the    *)
(* first 010 devices it is dropped without.                                *)
LockOf(device, protect, offset, length, asked) ==
  LET silent == device = "010"
      warned == \/ DoNotLock(device, protect, offset)
                \/ device = "060"
                \/ device = "090-150" /\ offset + length > NVM1_BOTTOM_OFFSET
  IN  [lock |-> asked /\ ~silent /\ ~warned, warning |-> asked /\ ~silent /\ warned]

(* NVM_write, NVM_unlock and NVM_read_page_write_count up to the request   *)
(* for access.                                                             *)
NvmCall(op, offset, length, asked) ==
  LET status == IF ~Valid(offset, length, op) THEN "INVALID_PARAMETER"
                ELSE check_protection_reserved_nvm(envm.device, envm.protect, offset,
                                                   IF op = "count" THEN 0 ELSE length)
      l == LockOf(envm.device, envm.protect, offset, length, asked)
  IN  /\ nvm.at = "free" /\ nvmCalled < NvmCalls
      /\ nvmCalled' = nvmCalled + 1
      /\ nvm' = [Resting EXCEPT !.op = op, !.offset = offset, !.length = length,
                   !.page = offset, !.remaining = length, !.status = status,
                   !.lock = l.lock, !.asked = asked, !.warning = l.warning,
                   !.at = IF status # "SUCCESS" THEN "return"
                          ELSE IF offset < NVM1_BOTTOM_OFFSET THEN "request0" ELSE "request1"]
      /\ envm' = [envm EXCEPT !.cr = IF op = "count" THEN @ ELSE "max"]
      /\ nvmDone' = [programmed |-> {}, verified |-> {}, locked |-> {}, unlocked |-> {}]

NVM_write(offset, length, asked) == NvmCall("write", offset, length, asked)

NVM_unlock(offset, length) == NvmCall("unlock", offset, length, FALSE)

NVM_read_page_write_count(offset) == NvmCall("count", offset, 1, FALSE)

release_ctrl_access(owner) ==
  [b \in {0, 1} |-> IF b \in nvm.locks THEN "none" ELSE owner[b]]

(* request_nvm_access: granted, or refused for as long as the driver asks. *)
request_nvm_access(b, granted) ==
  /\ nvm.at = IF b = 0 THEN "request0" ELSE "request1"
  /\ IF granted
     THEN /\ envm.owner[b] = "none"
          /\ envm' = [envm EXCEPT !.owner[b] = "m3"]
          /\ nvm' = [nvm EXCEPT !.locks = @ \cup {b},
                !.at = IF b = 0 /\ LastOf(nvm.offset, nvm.length) >= NVM1_BOTTOM_OFFSET
                       THEN "request1" ELSE "page"]
     ELSE /\ envm.owner[b] = "other"
          /\ envm' = [envm EXCEPT !.owner = release_ctrl_access(@)]
          /\ nvm' = [nvm EXCEPT !.status = "IN_USE_BY_OTHER_MASTER", !.at = "return",
                                !.locks = {}]
  /\ UNCHANGED <<nvmDone, nvmCalled>>

PageOf(offset) == offset \div BYTES_PER_PAGE

BlockOfPage(p) == IF p >= PAGES_PER_BLOCK THEN 1 ELSE 0

Advance(status, n) ==
  LET rest == nvm.remaining - n
  IN  [nvm EXCEPT !.status = status, !.page = @ + n,
         !.remaining = IF rest > 0 /\ GoesOn(status) THEN rest ELSE 0,
         !.at = IF rest > 0 /\ GoesOn(status) THEN "page" ELSE "release"]

(* write_nvm: program a page from the write buffer ... *)
write_nvm(bits) ==
  LET p == PageOf(nvm.page)
      n == get_remaining_page_length(nvm.page, nvm.remaining)
  IN  /\ nvm.at = "page" /\ nvm.op = "write"
      /\ nvmDone' = IF Errors(bits) THEN nvmDone
                    ELSE [nvmDone EXCEPT !.programmed = @ \cup {p},
                            !.locked = IF nvm.lock THEN @ \cup {p} ELSE @]
      /\ nvm' = IF Errors(bits) THEN Advance(get_error_code(bits), n)
                                ELSE [nvm EXCEPT !.at = "verify"]
      /\ UNCHANGED <<envm, nvmCalled>>

(* ... and verify it. *)
verify(bits) ==
  LET n == get_remaining_page_length(nvm.page, nvm.remaining)
  IN  /\ nvm.at = "verify"
      /\ nvmDone' = IF Errors(bits) THEN nvmDone
                    ELSE [nvmDone EXCEPT !.verified = @ \cup {PageOf(nvm.page)}]
      /\ nvm' = Advance(IF bits = {} THEN nvm.status ELSE get_error_code(bits), n)
      /\ UNCHANGED <<envm, nvmCalled>>

(* The loop of NVM_unlock: unlock a page and program it with what it holds. *)
(* It gives the controller the offset from block 0, also in block 1: the    *)
(* controller, which is external, is assumed to take the page from it.      *)
unlock_page(bits) ==
  LET p == PageOf(nvm.page)
      n == Least2(nvm.remaining, BYTES_PER_PAGE - (nvm.page % BYTES_PER_PAGE))
  IN  /\ nvm.at = "page" /\ nvm.op = "unlock"
      /\ nvmDone' = IF Errors(bits) THEN nvmDone
                    ELSE [nvmDone EXCEPT !.unlocked = @ \cup {p}]
      /\ nvm' = Advance(IF bits = {} THEN nvm.status ELSE get_error_code(bits), n)
      /\ UNCHANGED <<envm, nvmCalled>>

read_count ==
  /\ nvm.at = "page" /\ nvm.op = "count"
  /\ nvm' = [nvm EXCEPT !.at = "release"]
  /\ UNCHANGED <<envm, nvmDone, nvmCalled>>

nvm_release ==
  /\ nvm.at = "release"
  /\ envm' = [envm EXCEPT !.owner = release_ctrl_access(@)]
  /\ nvm' = [nvm EXCEPT !.locks = {}, !.at = "return"]
  /\ UNCHANGED <<nvmDone, nvmCalled>>

(* Put ENVM_CR back; a dropped lock shows only when nothing else went wrong. *)
nvm_return ==
  /\ nvm.at = "return"
  /\ envm' = [envm EXCEPT !.cr = "design"]
  /\ nvm' = [nvm EXCEPT !.at = "returned",
               !.status = IF @ = "SUCCESS" /\ nvm.warning THEN "PAGE_LOCK_WARNING" ELSE @]
  /\ UNCHANGED <<nvmDone, nvmCalled>>

(* The caller looks at the status. *)
nvm_returned == nvm.at = "returned" /\ nvm' = Resting /\ UNCHANGED <<envm, nvmDone, nvmCalled>>

(* Another master (external) takes a block that is free and gives it back. *)
OtherMaster(b, owner) ==
  /\ owner # envm.owner[b] /\ "m3" \notin {owner, envm.owner[b]}
  /\ envm' = [envm EXCEPT !.owner[b] = owner]
  /\ UNCHANGED <<nvm, nvmDone, nvmCalled>>

----------------------------------------------------------------------------
(* The protections a design may give: at most one region is not fully      *)
(* enabled.                                                                *)
Protections ==
  {[u \in 0..3 |-> IF u = v THEN m ELSE WRITE_ENABLED] :
     v \in 0..3, m \in {READ_ONLY, WRITE_ONLY, NO_READ_WRITE, WRITE_ENABLED}}

NvmInit ==
  /\ \E d \in NvmDevices, p \in Protections :
       envm = [device |-> d, protect |-> p, owner |-> [b \in {0, 1} |-> "none"],
               cr |-> "design"]
  /\ nvm = Resting
  /\ nvmDone = [programmed |-> {}, verified |-> {}, locked |-> {}, unlocked |-> {}]
  /\ nvmCalled = 0

NvmCalling ==
  \E offset \in NvmOffsets :
    \/ NVM_read_page_write_count(offset)
    \/ \E length \in NvmLengths :
         NVM_unlock(offset, length) \/ \E asked \in BOOLEAN : NVM_write(offset, length, asked)

NvmStep ==
  \/ \E b \in {0, 1}, granted \in BOOLEAN : request_nvm_access(b, granted)
  \/ \E bits \in Outcomes : write_nvm(bits) \/ verify(bits) \/ unlock_page(bits)
  \/ read_count \/ nvm_release \/ nvm_return \/ nvm_returned

NvmNext ==
  NvmCalling \/ NvmStep \/ \E b \in {0, 1}, owner \in {"none", "other"} : OtherMaster(b, owner)

NvmSpec == NvmInit /\ [][NvmNext]_nvmVars

----------------------------------------------------------------------------
(* Properties. *)

NvmTypeOK ==
  /\ nvm.at \in {"free", "request0", "request1", "page", "verify", "release", "return", "returned"}
  /\ nvm.remaining >= 0
  /\ envm.owner \in [{0, 1} -> {"none", "m3", "other"}]
  /\ nvm.locks = {b \in {0, 1} : envm.owner[b] = "m3"}
  /\ envm.cr = "max" <=> nvm.at \notin {"free", "returned"} /\ nvm.op # "count"

(* A page the design lets the application write: whole, in no reserved     *)
(* and in no restricted part of the memory.                                *)
Writable(p) ==
  LET map == MapOf(envm.device)
      lo  == p * BYTES_PER_PAGE
      hi  == lo + BYTES_PER_PAGE - 1
  IN  /\ hi < map.reserved
      /\ \A r \in map.regions : lo <= r.hi /\ r.lo <= hi => envm.protect[r.u] = WRITE_ENABLED

(* The driver programs a page only if the design lets it, only while the   *)
(* Cortex-M3 has access to the page's block, and only from a write buffer  *)
(* in which every byte is the caller's or the page's own.                  *)
ProgramsSafely ==
  nvm.at \in {"page", "verify"} /\ nvm.op # "count" =>
    /\ Writable(PageOf(nvm.page))
    /\ envm.owner[BlockOfPage(PageOf(nvm.page))] = "m3"
    /\ \A i \in 0..(BYTES_PER_PAGE - 1) :
         fill_wd_buffer(nvm.page,
           get_remaining_page_length(nvm.page, nvm.remaining))[i] # "stale"

PagesAsked ==
  {p \in PageOf(nvm.offset)..PageOf(LastOf(nvm.offset, nvm.length)) : TRUE}

(* When it reports success, or a warning, every page of the range and no   *)
(* other was written and verified, or unlocked, and each is locked if the  *)
(* caller asked for it and got no warning (the first 010 devices drop the  *)
(* lock without one); whatever it reports, the blocks are given back and   *)
(* the access time of the memory is the design's again.                    *)
ReportsTruly ==
  nvm.at = "returned" =>
    /\ nvm.status \in {"SUCCESS", "PAGE_LOCK_WARNING", "WRITE_THRESHOLD_WARNING"} =>
         /\ nvm.op = "write"  => nvmDone.verified = PagesAsked /\ nvmDone.programmed = PagesAsked
         /\ nvm.op = "unlock" => nvmDone.unlocked = PagesAsked
    /\ nvm.status = "SUCCESS" /\ nvm.asked /\ envm.device # "010" => nvmDone.locked = PagesAsked
    /\ "m3" \notin {envm.owner[0], envm.owner[1]} /\ envm.cr = "design"

(* Both hold of every call, on every device and for every protection.      *)
NvmSound == ProgramsSafely /\ ReportsTruly
=============================================================================
