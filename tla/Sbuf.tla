-------------------------------- MODULE Sbuf --------------------------------
(***************************************************************************)
(* The string buffer library (src/pkgs/compat/sbuf/sbuf.c).  A program     *)
(* makes a buffer, fixed or extending, with its own storage or allocated,  *)
(* perhaps with a drain that takes the text away; it appends, truncates,   *)
(* pads sections, finishes and deletes.  The allocator and the drain may   *)
(* fail, the drain may take less than it was given, and vsnprintf may fail.*)
(*                                                                         *)
(* One call that appends is several steps: one for every byte stored, and  *)
(* one for every try of vsnprintf.  text is what the calls asked for.      *)
(*                                                                         *)
(* The callers keep the contract that the debugging assertions state: a    *)
(* drain takes at least one byte, a buffer with a drain holds at least     *)
(* one (ASSUME), nobody trims or seeks where it makes no sense.            *)
(* What is stored before the buffer, once s_len is negative, is lost; what *)
(* it overwrites there is outside the model.                               *)
(***************************************************************************)
EXTENDS Integers, Sequences

CONSTANTS
    Chars,                      \* the bytes of texts
    Texts,                      \* what a caller appends
    Space, Pad,                 \* a blank, and the character sections are padded with
    Multiple,                   \* the length they are padded to a multiple of
    Wrap,                       \* 2^64 % Multiple, of size_t
    Sizes,                      \* of the buffers that callers make
    MinExtend, MaxExtend,       \* SBUF_MINEXTENDSIZE, SBUF_MAXEXTENDSIZE
    MaxText, MaxDepth           \* bounds: text asked for and counted, sections nested

ASSUME SbufAssumption ==
    /\ \A t \in Texts : t \in Seq(Chars) /\ t # <<>>
    /\ Pad \in Chars
    /\ Sizes \subseteq {n \in Nat : n >= 2}
    /\ MinExtend \in Nat \ {0} /\ MaxExtend \in Nat \ {0}
    /\ Multiple \in Nat \ {0} /\ Wrap \in 0..(Multiple - 1)
    /\ MaxText \in Nat /\ MaxDepth \in Nat

VARIABLES
    op, todo,                   \* the call under way, and what it has to append
    auto, drain,                \* SBUF_AUTOEXTEND; s_drain_func is set
    size, buf, error,           \* s_size, s_buf up to s_len, s_error
    under,                      \* by how much s_len is below zero
    finished,                   \* SBUF_FINISHED
    inSection, sect,            \* SBUF_INSECTION, s_sect_len
    saved,                      \* the old_len that callers keep of open sections
    dynamic, heap,              \* SBUF_DYNAMIC; how many allocations are alive
    out,                        \* what the drain took
    text, marks,                \* what was asked for; where sections began
    wrong,                      \* how many of the outer sections a clear made wrong
    unreported                  \* a vsnprintf was cut or failed, and nobody was told

str == <<size, buf, under, error, out>>
frame == <<auto, drain, inSection, saved>>
vars == <<op, todo, frame, str, finished, sect, dynamic, heap, text, marks, wrong, unreported>>

Errors == {"none", "nomem", "drain"}
Ops == {"none", "idle", "cat", "printf", "pad", "finish"}

Position == Len(out) + Len(buf) - under
FreeSpace == size - (Len(buf) - under + 1)

(* One type for every variable, and the assertion of the debugging build:   *)
(* "wrote past end of sbuf" never happens (sbuf.c:82).                      *)
TypeOK ==
    /\ op \in Ops /\ error \in Errors
    /\ {auto, drain, finished, inSection, dynamic, unreported} \subseteq BOOLEAN
    /\ size \in Nat /\ sect \in Int /\ under \in Nat
    /\ op # "none" => Len(buf) < size
    /\ Len(saved) = Len(marks) /\ wrong \in 0..Len(saved)

-----------------------------------------------------------------------------
\* Mutant: rounded down.
extendsizeDown(n) ==
    IF n < MaxExtend THEN MaxExtend ELSE (n \div MaxExtend) * MaxExtend

(* sbuf_extendsize: powers of two, then multiples of a page. *)
extendsize(n) ==
    IF n < MaxExtend
    THEN LET powers == {MinExtend * 2^k : k \in 0..n}
         IN  CHOOSE p \in powers : p >= n /\ \A q \in powers : q >= n => p <= q
    ELSE ((n + MaxExtend - 1) \div MaxExtend) * MaxExtend

Empty ==
    /\ auto = FALSE /\ drain = FALSE
    /\ size = 0 /\ buf = <<>> /\ under = 0 /\ error = "none"
    /\ finished = FALSE /\ inSection = FALSE /\ sect = 0 /\ saved = <<>>
    /\ dynamic = FALSE /\ heap = 0
    /\ out = <<>> /\ text = <<>> /\ marks = <<>>
    /\ wrong = 0 /\ unreported = FALSE

Init == op = "none" /\ todo = <<>> /\ Empty

(* sbuf_new and sbuf_newbuf. *)
New ==
    /\ op = "none" /\ op' = "idle"
    /\ \E n \in Sizes, own \in BOOLEAN :
          /\ auto' \in BOOLEAN
          /\ size' = IF auto' /\ ~own THEN extendsize(n) ELSE n
          /\ dynamic' = ~own
          /\ heap' = IF own THEN 0 ELSE 1
    /\ UNCHANGED <<drain, todo, buf, under, error, out, finished, inSection, sect, saved,
                   text, marks, wrong, unreported>>

(* sbuf_delete frees the storage if it was allocated, and zeroes the rest. *)
Delete ==
    /\ op = "idle" /\ op' = "none"
    /\ heap' = IF dynamic THEN heap - 1 ELSE heap
    /\ auto' = FALSE /\ drain' = FALSE /\ size' = 0 /\ buf' = <<>> /\ under' = 0
    /\ error' = "none" /\ finished' = FALSE /\ inSection' = FALSE /\ sect' = 0
    /\ saved' = <<>>
    /\ dynamic' = FALSE /\ out' = <<>> /\ text' = <<>> /\ marks' = <<>>
    /\ wrong' = 0 /\ unreported' = FALSE
    /\ UNCHANGED todo

-----------------------------------------------------------------------------
(* sbuf_drain: the drain takes n bytes, or fails and takes none. *)
Taken(n) ==
    /\ out' = out \o SubSeq(buf, 1, n)
    /\ size' = size

\* Mutant: the rest is not moved to the beginning.
RestUnmoved(n) == SubSeq(buf, 1, Len(buf) - n)

Rest(n) == SubSeq(buf, n + 1, Len(buf))

(* sbuf_extend: new storage, the old freed if it was allocated. *)
Extend(more) ==
    /\ auto
    /\ size' = extendsize(size + more)
    /\ dynamic' = TRUE
    /\ heap' = IF dynamic THEN heap ELSE heap + 1
    /\ UNCHANGED out

\* The end of a call that may go no further.
Return == op' = (IF op = "pad" THEN op ELSE "idle") /\ todo' = <<>>

Count(n) == sect' = IF inSection THEN sect + n ELSE sect

(* sbuf_put_byte, of the next byte of sbuf_cat, sbuf_bcat, sbuf_putc or      *)
(* sbuf_end_section.                                                       *)
Store(kept) ==
    /\ IF under > 0 THEN buf' = kept /\ under' = under - 1
                    ELSE buf' = Append(kept, Head(todo)) /\ under' = under
    /\ todo' = Tail(todo)
    /\ op' = IF Tail(todo) = <<>> /\ op = "cat" THEN "idle" ELSE op
    /\ sect' = IF inSection THEN sect + 1 ELSE sect
    /\ UNCHANGED error

PutByte ==
    /\ op \in {"cat", "pad"} /\ todo # <<>>
    /\ \/ FreeSpace > 0 /\ Store(buf) /\ UNCHANGED <<size, out, dynamic, heap>>
       \/ /\ FreeSpace <= 0 /\ drain
          /\ \E n \in 1..Len(buf) : Taken(n) /\ Store(Rest(n))
          /\ UNCHANGED <<dynamic, heap>>
       \/ FreeSpace <= 0 /\ ~drain /\ Extend(1) /\ Store(buf)
    /\ UNCHANGED <<frame, finished, text, marks, wrong, unreported>>

PutByteFails ==
    /\ op \in {"cat", "pad"} /\ todo # <<>>
    /\ FreeSpace <= 0
    /\ error' = IF drain THEN "drain" ELSE "nomem"
    /\ Return
    /\ UNCHANGED <<frame, size, buf, under, out, finished, sect, dynamic, heap, text, marks,
                   wrong, unreported>>

(* sbuf_vprintf: vsnprintf into what room there is, and again after a drain *)
(* or an extension, until the text fits or neither helps.                  *)
PrintBytes(n) ==
    /\ buf' = buf \o SubSeq(todo, under + 1, n)
    /\ under' = IF under > n THEN under - n ELSE 0
    /\ Count(n)
    /\ Return
    /\ UNCHANGED <<size, out, dynamic, heap>>

PrintFits ==
    /\ op = "printf" /\ FreeSpace >= Len(todo)
    /\ PrintBytes(Len(todo))
    /\ error' = IF FreeSpace = Len(todo) /\ ~auto THEN "nomem" ELSE error
    /\ UNCHANGED <<frame, finished, text, marks, wrong, unreported>>

PrintAgain ==
    /\ op = "printf" /\ FreeSpace < Len(todo)
    /\ IF drain /\ buf # <<>>
       THEN /\ \E n \in 1..Len(buf) : Taken(n) /\ buf' = Rest(n)
            /\ UNCHANGED <<dynamic, heap>>
       ELSE Extend(Len(todo) - FreeSpace) /\ UNCHANGED buf
    /\ UNCHANGED <<frame, op, todo, under, error, finished, sect, text, marks, wrong, unreported>>

\* What fitted stays.  Without an error of the drain, s_error is set only when
\* the buffer cannot extend.
PrintFails ==
    /\ op = "printf" /\ FreeSpace < Len(todo)
    /\ PrintBytes(FreeSpace)
    /\ error' = IF ~auto THEN "nomem" ELSE IF drain /\ buf # <<>> THEN "drain" ELSE error
    /\ unreported' = (unreported \/ error' = "none")
    /\ UNCHANGED <<frame, finished, text, marks, wrong>>

\* vsnprintf fails and returns -1: there is room for it, and it is added to the
\* lengths like any other.
PrintError ==
    /\ op = "printf"
    /\ IF buf = <<>> THEN under' = under + 1 /\ UNCHANGED buf
                     ELSE buf' = SubSeq(buf, 1, Len(buf) - 1) /\ UNCHANGED under
    /\ Count(-1)
    /\ Return
    /\ unreported' = TRUE
    /\ UNCHANGED <<frame, size, error, out, finished, dynamic, heap, text, marks, wrong>>

-----------------------------------------------------------------------------
Ready == op = "idle" /\ ~finished

(* sbuf_cat, sbuf_bcat, sbuf_putc and sbuf_printf begin; with an error      *)
(* latched they return at once.                                            *)
Begin(what, t) ==
    /\ Ready /\ error = "none"
    /\ Len(text) + Len(t) <= MaxText
    /\ op' = what /\ todo' = t
    /\ text' = text \o t
    /\ UNCHANGED <<frame, str, finished, sect, dynamic, heap, marks, wrong, unreported>>

\* sbuf_set_drain, on an empty buffer.
SetDrain ==
    /\ Ready /\ buf = <<>> /\ under = 0
    /\ drain' = ~drain
    /\ UNCHANGED <<op, todo, auto, inSection, saved, str, finished, sect, dynamic, heap, text,
                   marks, wrong, unreported>>

\* sbuf_clear.  The lengths that the caller saved of outer sections are not cleared.
Cleared ==
    /\ buf' = <<>> /\ under' = 0 /\ error' = "none" /\ sect' = 0 /\ finished' = FALSE
    /\ marks' = [i \in DOMAIN marks |-> Len(out)]
    /\ wrong' = IF saved = <<>> THEN 0 ELSE Len(saved) - 1
    /\ unreported' = FALSE
    /\ UNCHANGED <<frame, size, out, dynamic, heap>>

Clear ==
    /\ op = "idle"
    /\ Cleared
    /\ text' = out
    /\ UNCHANGED <<op, todo>>

(* sbuf_cpy and sbuf_bcpy: clear, then append. *)
Copy(t) ==
    /\ Ready
    /\ Len(out) + Len(t) <= MaxText
    /\ Cleared
    /\ op' = "cat" /\ todo' = t
    /\ text' = out \o t

\* The string cut to n bytes; what was asked for is cut with it.
Cut(n) ==
    /\ buf' = SubSeq(buf, 1, n)
    /\ text' = IF out \o buf = text THEN out \o SubSeq(buf, 1, n) ELSE text

(* sbuf_setpos, not in a section, nor past the end. *)
SetPos ==
    /\ Ready /\ ~inSection /\ under = 0
    /\ \E pos \in 0..Len(buf) : Cut(pos)
    /\ UNCHANGED <<frame, op, todo, size, under, error, out, finished, sect, dynamic, heap, marks,
                   wrong, unreported>>

(* sbuf_trim, without a drain. *)
Trim ==
    /\ Ready /\ ~drain /\ error = "none"
    /\ LET kept == {n \in 0..Len(buf) : \A i \in (n + 1)..Len(buf) : buf[i] = Space}
           n == CHOOSE n \in kept : \A m \in kept : n <= m
       IN  Cut(n) /\ Count(n - Len(buf))
    /\ UNCHANGED <<frame, op, todo, size, under, error, out, finished, dynamic, heap, marks,
                   wrong, unreported>>

\* sbuf_finish drains all there is.
FinishMore == drain /\ buf # <<>> /\ error = "none"

BeginFinish ==
    /\ Ready /\ op' = "finish"
    /\ UNCHANGED <<frame, todo, str, finished, sect, dynamic, heap, text, marks, wrong, unreported>>

FinishDrain ==
    /\ op = "finish" /\ FinishMore
    /\ \E n \in 1..Len(buf) : Taken(n) /\ buf' = Rest(n)
    /\ UNCHANGED <<frame, op, todo, under, error, finished, sect, dynamic, heap, text, marks,
                   wrong, unreported>>

FinishDrainFails ==
    /\ op = "finish" /\ FinishMore
    /\ error' = "drain"
    /\ UNCHANGED <<frame, op, todo, size, buf, under, out, finished, sect, dynamic, heap, text,
                   marks, wrong, unreported>>

Finish ==
    /\ op = "finish" /\ ~FinishMore
    /\ op' = "idle" /\ finished' = TRUE
    /\ UNCHANGED <<frame, todo, str, sect, dynamic, heap, text, marks, wrong, unreported>>

(* sbuf_start_section; the caller keeps the length of the section around.   *)
StartSection ==
    /\ Ready /\ Len(saved) < MaxDepth /\ sect \in -MaxText..MaxText
    /\ saved' = Append(saved, IF inSection THEN sect ELSE -1)
    /\ inSection' = TRUE
    /\ sect' = IF inSection THEN 0 ELSE sect
    /\ marks' = Append(marks, Position)
    /\ UNCHANGED <<op, todo, auto, drain, str, finished, dynamic, heap, text, wrong, unreported>>

\* roundup() is done in size_t: to it a negative length is 2^64 more, which the
\* rounding itself wraps around to zero again when the length is close to zero.
Padding ==
    LET length == IF sect > -Multiple THEN sect ELSE sect + Wrap
    IN  IF error = "none" THEN (-length) % Multiple ELSE 0

(* sbuf_end_section pads, and returns to the section around. *)
EndSection ==
    /\ Ready /\ inSection
    /\ op' = "pad" /\ todo' = [i \in 1..Padding |-> Pad]
    /\ text' = IF error = "none" THEN text \o todo' ELSE text
    /\ UNCHANGED <<frame, str, finished, sect, dynamic, heap, marks, wrong, unreported>>

\* Mutant: the length of the section around is forgotten.
OuterForgotten(old) == IF old = -1 THEN 0 ELSE sect

Outer(old) == IF old = -1 THEN 0 ELSE sect + old

PadDone ==
    /\ op = "pad" /\ todo = <<>>
    /\ op' = "idle"
    /\ inSection' = (saved[Len(saved)] # -1)
    /\ sect' = Outer(saved[Len(saved)])
    /\ saved' = SubSeq(saved, 1, Len(saved) - 1)
    /\ marks' = SubSeq(marks, 1, Len(marks) - 1)
    /\ wrong' = IF wrong < Len(saved) THEN wrong ELSE Len(saved) - 1
    /\ UNCHANGED <<todo, auto, drain, str, finished, dynamic, heap, text, unreported>>

Fails == PutByteFails \/ PrintFails \/ FinishDrainFails

(* Neither a drain nor an extension can make room. *)
MustFail == ~auto /\ ~(drain /\ buf # <<>>)

Work ==
    \/ PutByte \/ PrintFits \/ PrintAgain \/ FinishDrain \/ Finish \/ PadDone
    \/ MustFail /\ Fails

Call ==
    \/ New \/ Delete \/ SetDrain \/ Clear \/ SetPos \/ Trim \/ BeginFinish
    \/ StartSection \/ EndSection
    \/ \E t \in Texts : Begin("cat", t) \/ Begin("printf", t) \/ Copy(t)

Next == Work \/ Fails \/ PrintError \/ Call

(* A call goes on while it can, without the luck of an error; that the next *)
(* one is made is up to the program.                                       *)
Spec == Init /\ [][Next]_vars
FairSpec == Spec /\ WF_vars(Work)

-----------------------------------------------------------------------------
(* No loss goes unreported (sbuf.c:309, 410, 542): while no error is        *)
(* latched, what the drain took and what the buffer holds is the text that  *)
(* was asked for, up to what the call under way has left to do; with an     *)
(* error it is a beginning of that text.  There are two exceptions, both in *)
(* sbuf_vprintf, where s_error stays 0 and the call returns 0: a printf to  *)
(* an extending buffer for which there is no memory is cut (sbuf.c:447,     *)
(* 464), and one for which vsnprintf fails takes a byte of what was there   *)
(* before (sbuf.c:439, 465).                                                *)
NoSilentLoss ==
    LET got == out \o buf
    IN  ~unreported =>
            /\ under = 0
            /\ Len(got) <= Len(text) /\ got = SubSeq(text, 1, Len(got))
            /\ error = "none" => got \o todo = text

(* A section's length is the number of bytes stored since it began, drained *)
(* or not, that of the section around includes it (sbuf.c:332, 467, 645,    *)
(* 671), and what it is padded to is a multiple (sbuf.c:662).  Exceptions:  *)
(* a clear leaves the outer sections, whose lengths the callers keep, as    *)
(* long as they were (sbuf.c:219); a section begun after a trim took one    *)
(* byte more than the section around had, for which the length -1 that      *)
(* sbuf_start_section saves is its sign for a section with none around it;  *)
(* and a negative length, which is rounded as a size_t.                     *)
SectionsCount ==
    (\A i \in 2..Len(saved) : saved[i] # -1) =>
        /\ inSection /\ Len(saved) > wrong => sect = Position - marks[Len(marks)]
        /\ \A i \in DOMAIN saved :
              IF i = 1 THEN saved[i] = -1
                       ELSE i - 1 > wrong => saved[i] = marks[i] - marks[i - 1]
        /\ op = "pad" /\ error = "none" /\ sect + Len(todo) >= 0 =>
              (sect + Len(todo)) % Multiple = 0

(* Storage is freed once, by whoever allocated it: a deleted buffer leaves  *)
(* no allocation behind, and the caller's own storage is not freed          *)
(* (sbuf.c:146, 603).                                                       *)
NothingLeaks == heap = (IF dynamic THEN 1 ELSE 0) /\ (op = "none" => heap = 0)

(* A finished buffer with a drain has delivered everything (sbuf.c:549).    *)
FinishDelivers == (finished /\ drain /\ error = "none") => buf = <<>>

(* Every call returns, however little the drain takes at a time: the loop   *)
(* of sbuf_vprintf makes room or gives up (sbuf.c:438-450).                 *)
CallsReturn == op \notin {"none", "idle"} ~> op = "idle"

=============================================================================
