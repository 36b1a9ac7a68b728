---------------------------- MODULE MCEn29lv640 ----------------------------
(* A small instance of En29lv640. *)
EXTENDS En29lv640

\* The bytes commands are addressed to, one of each size of sector and the
\* neighbours of those, and the array erased or not.
MCAddr == {0, 1, 170, 171, AAA, AAA + 1, 8191, 8192, 65536, 65537, 131072}
MCImages == {[a \in MCAddr |-> 255], [a \in MCAddr |-> IF a < 8192 THEN 7 ELSE 9]}
MCSectors == {0, 8192, 65536}
\* Ordinary words, and words that look like commands.
MCWords == {<<0, 258>>, <<170, 152>>, <<170, 39064>>, <<AAA, 152>>, <<AAA, 170>>, <<65536, 170>>}
=============================================================================
