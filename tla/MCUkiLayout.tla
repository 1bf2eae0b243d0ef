---------------------------- MODULE MCUkiLayout -----------------------------
(* A small u32: numbers below 64, headers of one byte. *)
EXTENDS UkiLayout

S(v_addr, v_size, raw_ptr, raw_size) ==
  [v_addr |-> v_addr, v_size |-> v_size, raw_ptr |-> raw_ptr, raw_size |-> raw_size]

(* In order, out of order, with a section that takes no place in the file, and
   none at all. *)
MCSections ==
  {<<S(8, 3, 8, 4), S(16, 5, 12, 4)>>, <<S(16, 5, 12, 4), S(8, 3, 8, 4)>>,
   <<S(8, 8, 8, 8), S(16, 9, 0, 0)>>, <<>>}

MCStubs ==
  [pe : {TRUE}, sections : MCSections, headers : {2, 3}, room : {7, 8}, align : {4, 8},
   file_align : {1, 2, 4}, len : {16, 19}]
   \cup {[NoStub EXCEPT !.len = 3]}

(* The second payload, the command line, ends with a NUL. *)
MCPayloads ==
  {p \in [1..4 -> {0, 1, 5}] : p[2] > 0} \cup {<<1, 1, 30, 9>>, <<1, 1, 64, 70>>}
=============================================================================
