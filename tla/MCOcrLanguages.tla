--------------------------- MODULE MCOcrLanguages ---------------------------
(* Small instances of OcrLanguages for TLC. *)
EXTENDS OcrLanguages

CONSTANTS u1, eng, fra, deu

OneOwner == [d \in Docs |-> u1]

\* The default, the same codes with one repeated, and a list with a language that
\* is not configured.  The codes are not in alphabetical order.
MCInputs == {<<>>, <<fra, eng, fra>>, <<deu, eng>>}

MCDefault == <<fra, eng>>

MCLangs == UNION {[1..n -> {eng, fra, deu}] : n \in 1..2}

\* A failing engine and a working one.
MCInstalled == {{}, {eng, fra, deu}}
=============================================================================
