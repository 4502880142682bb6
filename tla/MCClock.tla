------------------------------- MODULE MCClock -------------------------------
(***************************************************************************)
(* A tick counter that wraps after a few seconds, and messages at the      *)
(* edges: the last second before a leap day, a day that does not exist     *)
(* given by numbers of more than 8 and 16 bits, and numbers that are out   *)
(* of range.                                                               *)
(***************************************************************************)
EXTENDS Clock

MCMessages ==
    { <<2024, 2, 28, 23, 59, 59>>,
      <<2023 + 2^16, 2^8 + 2, 30, 2^8, 0, 0>>,
      <<1999, 12, 31, 23, 59, 59>>,
      <<2024, 0, 1, 0, 0, 0>> }

\* The calendar of time.c, day by day.
ASSUME CalendarChecked == CalendarIsRight
=============================================================================
