----------------------------- MODULE ArgsBuffer ------------------------------
(***************************************************************************)
(* The arguments of an event on their way to userland: a BPF program saves *)
(* them one after the other in args_buf (common/buffer.h), submits what it *)
(* has, and the decoder reads them back by the types the event's fields    *)
(* declare (pkg/bufferdecoder).                                            *)
(*                                                                         *)
(* A cell holds a small number: an index, a size, a count, a character     *)
(* (never 0) or the terminating 0.  A size field is one cell, a 64 bit     *)
(* number is Wide cells.  What a program submitted before stays in the     *)
(* buffer, after the offset.  A read of the traced memory may fail.        *)
(***************************************************************************)
EXTENDS Integers, Sequences, SequencesExt

CONSTANTS
    ARGS_BUF_SIZE, MAX_ELEMENT_SIZE, MAX_STRING_SIZE, MAX_STR_ARR_ELEM,
    MAX_BYTES_ARR_SIZE, MAX_ARR_LEN,
    Programs,     \* the events that are submitted in turn: the types of their fields
    GivenOf(_)    \* the values that a field of a type may be given

VARIABLES
    program,
    submits,      \* the event of the program that is being made
    layout,       \* the types of its fields
    next,         \* the field that the program saves next
    buf,          \* args_buffer_t
    given,        \* what the program was given for each field
    stored,       \* the fields that were saved, by the return code
    clamped,      \* the offset was moved back for the ellipsis
    msg,          \* what was submitted, then what the decoder holds of it
    args          \* the decoded arguments

eventVars == <<program, submits, layout>>
bufVars == <<eventVars, next, buf, given, stored, clamped, msg, args>>

Wide == 2

Cells == 1 .. ARGS_BUF_SIZE

Take(seq, n) == SubSeq(seq, 1, IF n < Len(seq) THEN n ELSE Len(seq))

Write(cells, offset, data) ==
    [c \in Cells |-> IF c - offset \in DOMAIN data THEN data[c - offset] ELSE cells[c]]

Saved(b, cells, offset) == [cells |-> cells, offset |-> offset, argnum |-> b.argnum + 1]

Failed(b, cells) == [b EXCEPT !.cells = cells]

-----------------------------------------------------------------------------
(* buffer.h.  data is what is copied, <<>> when the read of it fails; a    *)
(* string comes with its terminating 0.                                    *)

save_to_submit_buf(b, size, data, index) ==
    IF size = 0 \/ size > MAX_ELEMENT_SIZE \/ b.offset >= ARGS_BUF_SIZE THEN b
    ELSE LET indexed == Write(b.cells, b.offset, <<index>>)
         IN  IF b.offset + 1 + size > ARGS_BUF_SIZE \/ data = <<>> THEN Failed(b, indexed)
             ELSE Saved(b, Write(indexed, b.offset + 1, data), b.offset + 1 + size)

save_bytes_to_buf(b, size, data, index) ==
    LET rsize == IF size >= MAX_BYTES_ARR_SIZE THEN MAX_BYTES_ARR_SIZE - 1 ELSE size
        header == Write(b.cells, b.offset, <<index, rsize>>)
    IN  IF size = 0 \/ b.offset > ARGS_BUF_SIZE - (2 + MAX_BYTES_ARR_SIZE) THEN b
        ELSE IF data = <<>> THEN Failed(b, header)
        ELSE Saved(b, Write(header, b.offset + 2, Take(data, rsize)), b.offset + 2 + rsize)

(* bpf_probe_read_str: at most max cells, the last of them 0.              *)
ReadStr(str, max) == Take(str, max - 1) \o <<0>>

(* Mutant form: the field of the size is not counted.                      *)
save_str_to_buf_short(b, str, index) ==
    LET indexed == Write(b.cells, b.offset, <<index>>)
        read == ReadStr(str, MAX_STRING_SIZE)
    IN  IF b.offset > ARGS_BUF_SIZE - 1 THEN b
        ELSE IF b.offset > ARGS_BUF_SIZE - (MAX_STRING_SIZE + 2) \/ str = <<>>
             THEN Failed(b, indexed)
        ELSE Saved(b, Write(indexed, b.offset + 1, <<Len(read)>> \o read),
                   b.offset + Len(read) + 1)

save_str_to_buf(b, str, index) ==
    LET indexed == Write(b.cells, b.offset, <<index>>)
        read == ReadStr(str, MAX_STRING_SIZE)
    IN  IF b.offset > ARGS_BUF_SIZE - 1 THEN b
        ELSE IF b.offset > ARGS_BUF_SIZE - (MAX_STRING_SIZE + 2) \/ str = <<>>
             THEN Failed(b, indexed)
        ELSE Saved(b, Write(indexed, b.offset + 1, <<Len(read)>> \o read),
                   b.offset + Len(read) + 2)

save_u64_arr_to_buf(b, count, data, index) ==
    LET indexed == Write(b.cells, b.offset, <<index>>)
        counted == Write(indexed, b.offset + 1, <<count>>)
    IN  IF b.offset > ARGS_BUF_SIZE - 1 THEN b
        ELSE IF b.offset + 1 > ARGS_BUF_SIZE - 1 THEN Failed(b, indexed)
        ELSE IF b.offset + 2 > ARGS_BUF_SIZE - MAX_BYTES_ARR_SIZE \/ (count > 0 /\ data = <<>>)
             THEN Failed(b, counted)
        ELSE Saved(b, Write(counted, b.offset + 2, data), b.offset + 2 + Wide * count)

save_args_str_arr_to_buf(b, elems, data, index) ==
    LET len == IF Len(data) > MAX_ARR_LEN - 1 THEN MAX_ARR_LEN - 1 ELSE Len(data)
        header == Write(b.cells, b.offset, <<index, len, elems>>)
    IN  IF data = <<>> \/ b.offset > ARGS_BUF_SIZE - 1 THEN b
        ELSE IF b.offset + 3 > ARGS_BUF_SIZE - MAX_ARR_LEN THEN Failed(b, header)
        ELSE Saved(b, Write(header, b.offset + 3, Take(data, len)), b.offset + 3 + len)

Ellipsis == <<9, 9, 9>>

(* One string of the array, behind its size.                               *)
AddElement(acc, str) ==
    LET read == ReadStr(str, MAX_STRING_SIZE)
    IN  [acc EXCEPT !.cells = Write(@, acc.offset, <<Len(read)>> \o read),
                    !.offset = @ + Len(read) + 1, !.elems = @ + 1]

LastString == ARGS_BUF_SIZE - MAX_STRING_SIZE - 1

(* The strings of the array are added until one is missing, cannot be read *)
(* or has no room; behind MAX_STR_ARR_ELEM of them an ellipsis is put, no  *)
(* further than where it surely has room.                                  *)
AddElements(b, strs) ==
    FoldLeft(LAMBDA acc, i :
                 IF acc.stop \/ i > Len(strs) THEN [acc EXCEPT !.stop = TRUE]
                 ELSE IF acc.offset > LastString \/ strs[i] = <<>> THEN [acc EXCEPT !.stop = TRUE]
                 ELSE AddElement(acc, strs[i]),
             [cells |-> b.cells, offset |-> b.offset, elems |-> 0, stop |-> FALSE],
             [i \in 1 .. MAX_STR_ARR_ELEM |-> i])

ClampsFor(b, strs) ==
    LET full == AddElements([b EXCEPT !.offset = @ + 2], strs)
    IN  b.offset <= ARGS_BUF_SIZE - 1 /\ ~full.stop /\ full.offset > LastString

save_str_arr_to_buf(b, strs, index) ==
    LET start == [b EXCEPT !.cells = Write(@, b.offset, <<index>>), !.offset = @ + 2]
        full == AddElements(start, strs)
        end == IF full.stop THEN full
               ELSE AddElement([full EXCEPT !.offset = IF @ > LastString THEN LastString ELSE @],
                               Ellipsis)
    IN  IF b.offset > ARGS_BUF_SIZE - 1 THEN b
        ELSE IF b.offset + 1 > ARGS_BUF_SIZE - 1
             THEN [b EXCEPT !.cells = end.cells, !.offset = end.offset]
        ELSE Saved(b, Write(end.cells, b.offset + 1, <<end.elems>>), end.offset)

-----------------------------------------------------------------------------
(* The program.  Of a socket address the size follows from the family, the *)
(* first cell of it: AF_UNIX, AF_INET and AF_INET6 have an address.        *)

FamilySize(family) == CASE family = 1 -> 5 [] family = 2 -> 3 [] family = 10 -> 4 [] OTHER -> 1

save_args_to_submit_buf(type, value, index) ==
    CASE type = "U8_T"  -> save_to_submit_buf(buf, 1, value, index)
      [] type = "ULONG_T" -> save_to_submit_buf(buf, Wide, value, index)
      [] type = "SOCK_ADDR_T" ->
             save_to_submit_buf(buf, IF value = <<>> THEN 1 ELSE FamilySize(value[1]),
                                value, index)
      [] type = "STR_T"   -> save_str_to_buf(buf, value, index)
      [] type = "BYTES_T" -> save_bytes_to_buf(buf, Len(value), value, index)
      [] type = "UINT64_ARR_T" -> save_u64_arr_to_buf(buf, Len(value) \div Wide, value, index)
      [] type = "ARGS_ARR_T" ->
             save_args_str_arr_to_buf(buf, Len(SelectSeq(value, LAMBDA x : x = 0)), value, index)
      [] type = "STR_ARR_T" -> save_str_arr_to_buf(buf, value, index)

Save(value) ==
    LET type == layout[next]
        new == save_args_to_submit_buf(type, value, next)
    IN  /\ msg = <<>> /\ next <= Len(layout)
        /\ buf' = new
        /\ given' = [given EXCEPT ![next] = value]
        /\ stored' = IF new.argnum > buf.argnum THEN stored \cup {next} ELSE stored
        /\ clamped' = (clamped \/ (type = "STR_ARR_T" /\ ClampsFor(buf, value)))
        /\ next' = next + 1
        /\ UNCHANGED <<eventVars, msg, args>>

(* A program may end before it saved every field, and submit what it has.  *)
events_perf_submit ==
    /\ msg = <<>>
    /\ msg' = [bytes |-> Take(buf.cells, buf.offset),
               cursor |-> 0, left |-> buf.argnum]
    /\ UNCHANGED <<eventVars, next, buf, given, stored, clamped, args>>

-----------------------------------------------------------------------------
(* The decoder.  A reading is a cursor, whether it is in error, and the    *)
(* value.                                                                  *)

Reading(cursor, ok, val) == [cursor |-> cursor, ok |-> ok, val |-> val]

DecodeBytes(cursor, n) ==
    IF Len(msg.bytes) - cursor < n THEN Reading(cursor, FALSE, <<>>)
    ELSE Reading(cursor + n, TRUE, SubSeq(msg.bytes, cursor + 1, cursor + n))

(* DecodeUint8, DecodeInt32 and their like: a number of one cell.          *)
DecodeNumber(cursor) ==
    LET n == DecodeBytes(cursor, 1)
    IN  Reading(n.cursor, n.ok, IF n.ok THEN n.val[1] ELSE 0)

(* A size or a count, and what follows it unless it could not be read.     *)
Sized(n, rest) == IF n.ok THEN rest ELSE Reading(n.cursor, FALSE, <<>>)

(* The terminating 0 is discarded also when the string could not be read.  *)
readStringFromBuff(cursor) ==
    LET size == DecodeNumber(cursor)
        unread == Reading(size.cursor, FALSE, <<>>)
        res == IF size.val = 0 THEN unread ELSE DecodeBytes(size.cursor, size.val - 1)
    IN  Sized(size, IF size.val > MAX_STRING_SIZE THEN unread
                    ELSE [res EXCEPT !.cursor = DecodeBytes(@, 1).cursor])

ReadStrings(cursor, count) ==
    FoldLeft(LAMBDA acc, i :
                 LET s == readStringFromBuff(acc.cursor)
                 IN  IF ~acc.ok THEN acc
                     ELSE Reading(s.cursor, s.ok, Append(acc.val, s.val)),
             Reading(cursor, TRUE, <<>>), [i \in 1 .. count |-> i])

readSockaddrFromBuff(cursor) ==
    LET family == DecodeNumber(cursor)
        rest == DecodeBytes(family.cursor, FamilySize(family.val) - 1)
    IN  Sized(family, [rest EXCEPT !.val = <<family.val>> \o @])

ReadValue(type, cursor) ==
    LET n == DecodeNumber(cursor)
        elems == DecodeNumber(n.cursor)
    IN
    CASE type = "U8_T" -> DecodeBytes(cursor, 1)
      [] type = "ULONG_T" -> DecodeBytes(cursor, Wide)
      [] type = "SOCK_ADDR_T" -> readSockaddrFromBuff(cursor)
      [] type = "STR_T" -> readStringFromBuff(cursor)
      [] type = "BYTES_T" -> Sized(n, DecodeBytes(n.cursor, n.val))
      [] type = "UINT64_ARR_T" -> Sized(n, DecodeBytes(n.cursor, Wide * n.val))
      [] type = "ARGS_ARR_T" -> Sized(n, Sized(elems, DecodeBytes(elems.cursor, n.val)))
      [] type = "STR_ARR_T" -> Sized(n, ReadStrings(n.cursor, n.val))

(* One round of DecodeArguments: an argument that is in error is passed    *)
(* over, and the reading goes on where it ended.                           *)
readArgFromBuff ==
    LET index == DecodeBytes(msg.cursor, 1)
        known == index.ok /\ index.val[1] \in DOMAIN layout
        value == ReadValue(layout[index.val[1]], index.cursor)
    IN  /\ msg # <<>> /\ msg.left > 0
        /\ msg' = [msg EXCEPT !.left = @ - 1,
                              !.cursor = IF known THEN value.cursor ELSE index.cursor]
        /\ args' = IF known /\ value.ok
                   THEN [args EXCEPT ![index.val[1]] = [ok |-> TRUE, val |-> value.val]]
                   ELSE args
        /\ UNCHANGED <<eventVars, next, buf, given, stored, clamped>>

-----------------------------------------------------------------------------
(* The zero value of a field's type.                                       *)
Zero == [ok |-> FALSE, val |-> <<>>]

Blank(l) == [i \in DOMAIN l |-> <<>>]

Zeros(l) == [i \in DOMAIN l |-> Zero]

(* The next event that the CPU submits, or the next of the same program:   *)
(* init_program_data and reset_event_args_buf set offset and argnum to 0.  *)
reset_event_args_buf ==
    /\ msg # <<>> /\ msg.left = 0 /\ submits < Len(program)
    /\ submits' = submits + 1
    /\ layout' = program[submits']
    /\ given' = Blank(layout') /\ args' = Zeros(layout')
    /\ buf' = [buf EXCEPT !.offset = 0, !.argnum = 0]
    /\ next' = 1 /\ stored' = {} /\ clamped' = FALSE /\ msg' = <<>>
    /\ UNCHANGED program

BufInitIn(programs) ==
    /\ program \in programs /\ submits = 1 /\ layout = program[1]
    /\ given = Blank(layout) /\ args = Zeros(layout)
    /\ buf = [cells |-> [c \in Cells |-> 0], offset |-> 0, argnum |-> 0]
    /\ next = 1 /\ stored = {} /\ clamped = FALSE /\ msg = <<>>

BufInit == BufInitIn(Programs)

BufNext ==
    \/ next <= Len(layout) /\ \E value \in GivenOf(layout[next]) : Save(value)
    \/ events_perf_submit
    \/ readArgFromBuff
    \/ reset_event_args_buf

-----------------------------------------------------------------------------
(* What userland should see of a value: strings and bytes cut to the       *)
(* maximum, an array of strings up to one that cannot be read or has no    *)
(* room, with an ellipsis when there were too many.                        *)

Cut(str) == Take(str, MAX_STRING_SIZE - 1)

Agrees(type, value, val) ==
    CASE type = "STR_T"   -> val = Cut(value)
      [] type = "BYTES_T" -> val = Take(value, MAX_BYTES_ARR_SIZE - 1)
      [] type = "ARGS_ARR_T" -> val = Take(value, MAX_ARR_LEN - 1)
      [] type = "STR_ARR_T" ->
             LET cut == [i \in DOMAIN value |-> Cut(value[i])]
             IN  \/ IsPrefix(val, cut)
                 \/ /\ Len(value) >= MAX_STR_ARR_ELEM
                    /\ val = Append(Take(cut, MAX_STR_ARR_ELEM), Ellipsis)
      [] OTHER -> val = value

(* Userland decodes what was saved: every argument that was saved is the   *)
(* one that was given, every other one is zero, whatever could not be read *)
(* or had no room before it, and whatever earlier events left behind.      *)
(* (Unless the ellipsis was written over the last string.)                 *)
DecodedAsSaved ==
    (msg # <<>> /\ ~clamped) =>
        (msg.left = 0 =>
            \A i \in DOMAIN layout :
                IF i \in stored THEN args[i].ok /\ Agrees(layout[i], given[i], args[i].val)
                ELSE args[i] = Zero)
=============================================================================
