---------------------------- MODULE ChaChaStream ----------------------------
(***************************************************************************)
(* chacha20_lib.s as the drivers see it: cc20_state names one block of      *)
(* keystream (key, nonce, counter), chacha20_block leaves that block in     *)
(* cc20_keystream and moves the state to the next one, and chacha20_encrypt *)
(* XORs successive blocks into memory.  What the 20 rounds compute is       *)
(* abstracted: a keystream byte is known only by the block it belongs to    *)
(* and its index in it.                                                     *)
(***************************************************************************)
EXTENDS LibMemory

VARIABLES
  cc20_in,         (* the fields cc20_key, cc20_nonce and cc20_counter      *)
  cc20_state,      (* the ChaCha20 input block                              *)
  cc20_keystream,  (* cc20_work: the state the last block was made from     *)
  cc20_data_ptr    (* where chacha20_encrypt stands in the buffer           *)

(* chacha20_init: the state is rebuilt from the three input fields.         *)
StateFrom(in) == [key |-> in.key, nonce |-> in.nonce, ctr |-> in.ctr]

(* Mutant: the counter runs past its four bytes.                           *)
NextBlockNoWrap(s) == [s EXCEPT !.ctr = @ + 1]

(* The inc chain over the four counter bytes at the tail of chacha20_block. *)
NextBlock(s) ==
  [s EXCEPT !.ctr = IF @ + 1 = CtrMod THEN 0 ELSE @ + 1]

(* Mutant: the counter is not advanced.                                    *)
RunBlockNoCount(s) == cc20_keystream' = s /\ cc20_state' = s

(* chacha20_block on the input block s.                                     *)
RunBlock(s) ==
  /\ cc20_keystream' = s
  /\ cc20_state'     = NextBlock(s)

(* Mutant: only the low byte of the count is looked at.                    *)
XorCountLow == IF cc20_remain >= ChaBlock THEN ChaBlock ELSE cc20_remain

(* min(remain, ChaBlock), the count chacha20_encrypt XORs from a block.     *)
XorCount ==
  IF HasBlock(cc20_remain, cc20_remain_hi, ChaBlock) THEN ChaBlock
                                                     ELSE cc20_remain

(* lda (cc20_data_ptr),y / eor cc20_keystream,y / sta for y in 0 .. n-1.    *)
XorInto(m, ptr, ks, n) ==
  [a \in Addr |-> IF Offset(a, ptr) < n
                  THEN Xor(m[a], KsByte(ks, Offset(a, ptr)))
                  ELSE m[a]]

(* One turn of chacha20_encrypt's @next_block loop.                         *)
EncryptBlock ==
  /\ ~Drained
  /\ RunBlock(cc20_state)
  /\ mem' = XorInto(mem, cc20_data_ptr, cc20_keystream', XorCount)
  /\ cc20_data_ptr' = AddWord(cc20_data_ptr, XorCount)
  /\ TakeFromRemain(XorCount)
  /\ UNCHANGED cc20_in

ChaChaTypeOK ==
  /\ cc20_in \in ChaState
  /\ cc20_state \in ChaState
  /\ cc20_keystream \in ChaState
  /\ cc20_data_ptr \in Addr
=============================================================================
