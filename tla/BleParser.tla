------------------------------ MODULE BleParser ------------------------------
(***************************************************************************)
(* data_parsing (applications/bluetooth.c), the body of the thread "ble":  *)
(* characters are collected in the buffer _data_ until DATA_CMD_END comes; *)
(* the collected string is then offered to the mailboxes it is meant for.  *)
(*                                                                         *)
(* This module has the thread and its buffer; who reads the buffer, and    *)
(* when, is the matter of BlePipeline.                                     *)
(*                                                                         *)
(* _data_ has ONE_DATA_MAXLEN cells, 0 .. ONE_DATA_MAXLEN - 1.  The model  *)
(* has one more, the byte behind the array: the code can store the         *)
(* terminating NUL there.  C leaves open what such a store does.  In this  *)
(* function, which never returns, the byte is padding, the variable ch     *)
(* (not read again before it is next assigned) or a saved register (never  *)
(* restored): the store changes nothing the function depends on, and the   *)
(* string ends there as long as the cell keeps the NUL.                    *)
(***************************************************************************)
EXTENDS Integers, Sequences

CONSTANTS
    Char,               \* the characters a cell of the buffer can hold
    Input,              \* the characters the peer sends
    NUL,                \* '\0'
    DATA_CMD_END,       \* 'a' (its comment says '\r')
    TimeMark,           \* 'T'
    Bracket,            \* '['
    ONE_DATA_MAXLEN,    \* 30 + 1
    LineMax             \* bound: characters the peer sends before DATA_CMD_END

ASSUME CharAssumption ==
    /\ {NUL, DATA_CMD_END, TimeMark, Bracket} \subseteq Char
    /\ NUL \notin {DATA_CMD_END, TimeMark, Bracket}
    /\ Input \subseteq Char
ASSUME MaxLenAssumption == ONE_DATA_MAXLEN \in Nat \ {0}
ASSUME LineMaxAssumption == LineMax \in Nat

Cell == 0 .. ONE_DATA_MAXLEN
Box == {"ble_mb_6288", "ble_mb_oled", "ble_mb_time"}

VARIABLES
    data,       \* _data_ and the byte behind it
    i,          \* the next free cell
    ch,         \* the character being looked at
    todo,       \* the mailboxes that the message is still to be sent to
    pc,         \* where the thread is
    line        \* history: the characters received since the last DATA_CMD_END

parserVars == <<data, i, ch, todo, pc, line>>

ParserTypeOK ==
    /\ data \in [Cell -> Char]
    /\ i \in 0 .. ONE_DATA_MAXLEN + 1
    /\ ch \in Char
    /\ todo \in Seq(Box)
    /\ pc \in {"getc", "parse", "send"}
    /\ line \in Seq(Char)

\* _data_ is an automatic variable and starts with whatever is there; ch is
\* assigned before it is first read.
ParserInit ==
    /\ data \in [Cell -> Char]
    /\ i = 0
    /\ ch = NUL
    /\ todo = << >>
    /\ pc = "getc"
    /\ line = << >>

-----------------------------------------------------------------------------
(* A form the code could have had by mistake.                              *)

\* The index is not held back: a long line starts over at the first cell.
StoreWraps(c) ==
    LET k == IF i >= ONE_DATA_MAXLEN THEN 0 ELSE i
    IN  /\ data' = [data EXCEPT ![k] = c]
        /\ i' = k + 1
-----------------------------------------------------------------------------

\* The C string that starts at cell 0: the characters before the first NUL.
CString(d) ==
    LET end == CHOOSE n \in Cell : d[n] = NUL /\ \A m \in Cell : m < n => d[m] # NUL
    IN  [k \in 1 .. end |-> d[k - 1]]

\* i = (i >= ONE_DATA_MAXLEN - 1) ? ONE_DATA_MAXLEN - 1 : i; _data_[i++] = ch
Store(c) ==
    LET k == IF i >= ONE_DATA_MAXLEN - 1 THEN ONE_DATA_MAXLEN - 1 ELSE i
    IN  /\ data' = [data EXCEPT ![k] = c]
        /\ i' = k + 1

\* _data_[i++] = '\0'
Terminate ==
    /\ data' = [data EXCEPT ![i] = NUL]
    /\ i' = i + 1

\* The mailboxes a message is for, in the order of the sends.
Route(s) ==
    LET time == s # << >> /\ Head(s) = TimeMark
        voice == \E k \in DOMAIN s : s[k] = Bracket     \* strchr(_data_, '[')
    IN  IF ~time /\ ~voice THEN <<"ble_mb_6288", "ble_mb_oled">>
        ELSE IF time THEN <<"ble_mb_time">>
        ELSE <<"ble_mb_6288">>

\* uart_sample_get_char returns c, which is echoed.
GetChar(c) ==
    /\ pc = "getc"
    /\ c # DATA_CMD_END => Len(line) < LineMax
    /\ ch' = c
    /\ pc' = "parse"
    /\ UNCHANGED <<data, i, todo, line>>

\* Any character but DATA_CMD_END is stored.
StoreChar ==
    /\ pc = "parse"
    /\ ch # DATA_CMD_END
    /\ Store(ch)
    /\ line' = Append(line, ch)
    /\ pc' = "getc"
    /\ UNCHANGED <<ch, todo>>

\* DATA_CMD_END closes the string; its contents decide where it goes.
EndLine ==
    /\ pc = "parse"
    /\ ch = DATA_CMD_END
    /\ Terminate
    /\ todo' = Route(CString(data'))
    /\ pc' = "send"
    /\ UNCHANGED <<ch, line>>

\* One rt_mb_send.  Its effect on the mailbox is not part of this module.
Send ==
    /\ pc = "send"
    /\ todo # << >>
    /\ todo' = Tail(todo)
    /\ UNCHANGED <<data, i, ch, pc, line>>

\* All sent: the buffer is used again from the start.
Restart ==
    /\ pc = "send"
    /\ todo = << >>
    /\ i' = 0
    /\ pc' = "getc"
    /\ line' = << >>
    /\ UNCHANGED <<data, ch, todo>>

ParserNext ==
    \/ \E c \in Input : GetChar(c)
    \/ StoreChar
    \/ EndLine
    \/ Send
    \/ Restart

ParserSpec == ParserInit /\ [][ParserNext]_parserVars

-----------------------------------------------------------------------------
(* What becomes of a line.                                                 *)

\* The characters of a line that are kept: all of a short one; of a long one
\* the first ONE_DATA_MAXLEN - 1 and the very last.
Kept(s) ==
    IF Len(s) <= ONE_DATA_MAXLEN THEN s
    ELSE [k \in 1 .. ONE_DATA_MAXLEN |->
             IF k = ONE_DATA_MAXLEN THEN s[Len(s)] ELSE s[k]]

(***************************************************************************)
(* The buffer holds the line.  Whatever was received before, and however   *)
(* long the line is, the cells before i hold the characters that are kept  *)
(* of the current line and nothing of an earlier one; and while it is      *)
(* being sent the string in the buffer is closed right behind them.        *)
(***************************************************************************)
BufferHoldsLine ==
    LET n == Len(Kept(line)) IN
    /\ \A k \in 1 .. n : data[k - 1] = Kept(line)[k]
    /\ pc # "send" => i = n
    /\ pc = "send" => data[n] = NUL

(***************************************************************************)
(* What the comment at ONE_DATA_MAXLEN says: it is the length of the data  *)
(* with the closing '\0' included, so the string a receiver is given ends  *)
(* inside the array.                                                       *)
(***************************************************************************)
TerminatorInBuffer ==
    pc = "send" => \E n \in 0 .. ONE_DATA_MAXLEN - 1 : data[n] = NUL
=============================================================================
