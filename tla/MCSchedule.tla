----------------------------- MODULE MCSchedule -----------------------------
(* An instance of Schedule for TLC. *)
EXTENDS Schedule

\* The cloud backup in the third minute of every day, and two announcements of
\* one name in the minute after it, the first of them every other day only.
Names   == <<"cloud", "news", "news">>
Minutes == <<2, 3, 3>>
Days    == <<{0, 1}, {1}, {0, 1}>>
=============================================================================
