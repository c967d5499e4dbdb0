----------------------------- MODULE RmapPacket -----------------------------
(***************************************************************************)
(* RMAP packets as bytes: lib/rdcu_compress/rmap.c, and rdcu_gen_cmd and   *)
(* rdcu_package of rdcu_rmap.c.  A buffer is a sequence of bytes; offsets  *)
(* count from 0 as in the code.                                            *)
(***************************************************************************)
EXTENDS Bytes, Bitwise

CONSTANT NULL

RMAP_READ_ADDR_SINGLE               == 2
RMAP_READ_ADDR_INC                  == 3
RMAP_READ_MODIFY_WRITE_ADDR_INC     == 7
RMAP_WRITE_ADDR_SINGLE_REPLY        == 10
RMAP_WRITE_ADDR_INC_REPLY           == 11
RMAP_WRITE_ADDR_INC_VERIFY_REPLY    == 15

RMAP_PROTOCOL_ID        == 1
RMAP_MAX_PATH_LEN       == 15
RMAP_MAX_REPLY_PATH_LEN == 12
RMAP_MAX_DATA_LEN       == 16777215

(* All valid command codes; the bit RMAP_CMD_BIT_WRITE makes it a write.   *)
Reads  == {RMAP_READ_ADDR_SINGLE, RMAP_READ_ADDR_INC,
           RMAP_READ_MODIFY_WRITE_ADDR_INC}
Writes == 8 .. 15
rmap_validate_cmd_code(cmd) == cmd \in Reads \cup Writes

rmap_get_min_hdr_size(cmd, cmd_resp) ==
  CASE cmd \in Reads  -> IF cmd_resp = 1 THEN 15 ELSE 11
    [] cmd \in Writes -> IF cmd_resp = 1 THEN 15 ELSE 7
    [] OTHER          -> -1

(* The table crc8_lt: what eight shifts make of a byte, with the RMAP      *)
(* polynomial (bits reversed: 0xE0).                                       *)
crc8_lt ==
  LET One  == [b \in Byte |-> IF b % 2 = 1 THEN (b \div 2) ^^ 224 ELSE b \div 2]
      Two  == [b \in Byte |-> One[One[b]]]
      Four == [b \in Byte |-> Two[Two[b]]]
  IN [b \in Byte |-> Four[Four[b]]]
Xor8 == [a \in Byte |-> [b \in Byte |-> a ^^ b]]
Crc8[buf \in Seq(Byte)] ==
  IF buf = <<>> THEN 0
  ELSE crc8_lt[Xor8[Crc8[SubSeq(buf, 1, Len(buf) - 1)]][buf[Len(buf)]]]
rmap_crc8(buf) == Crc8[buf]
-----------------------------------------------------------------------------
(* struct rmap_pkt and the functions that fill it in.  A function that     *)
(* refuses its argument leaves the packet alone; rdcu_gen_cmd and          *)
(* gr718b_gen_cmd ignore that.                                             *)

rmap_create_packet ==
  [path |-> <<>>, dst |-> 0, cmd |-> 0, cmd_resp |-> 0, reply_addr_len |-> 0,
   key |-> 0, src |-> 0, rpath |-> <<>>, tr_id |-> 0, addr |-> 0,
   data_len |-> 0]

rmap_set_reply_path(pkt, rpath) ==
  IF Len(rpath) > RMAP_MAX_REPLY_PATH_LEN \/ Len(rpath) % 4 # 0 THEN pkt
  ELSE [pkt EXCEPT !.rpath = rpath, !.reply_addr_len = Len(rpath) \div 4]

rmap_set_dest_path(pkt, path) ==
  IF Len(path) > RMAP_MAX_PATH_LEN THEN pkt ELSE [pkt EXCEPT !.path = path]

rmap_set_cmd(pkt, cmd) ==
  IF rmap_validate_cmd_code(cmd)
  THEN [pkt EXCEPT !.cmd = cmd, !.cmd_resp = 1] ELSE pkt

rmap_set_data_len(pkt, len) ==
  IF len > RMAP_MAX_DATA_LEN THEN pkt ELSE [pkt EXCEPT !.data_len = len]

(* A packet for a link configuration: rmap_set_dst, rmap_set_src,          *)
(* rmap_set_key, rmap_set_tr_id and rmap_set_data_addr take any value.     *)
Filled(conf, trans_id, cmd, addr, size) ==
  LET pkt == [rmap_create_packet EXCEPT !.dst = conf.dst, !.src = conf.src,
                !.key = conf.key, !.tr_id = trans_id, !.addr = addr]
  IN rmap_set_data_len(
       rmap_set_cmd(
         rmap_set_reply_path(
           rmap_set_dest_path(pkt, conf.dpath), conf.rpath), cmd), size)

instruction(pkt) == 64 * pkt.cmd_resp + 4 * pkt.cmd + pkt.reply_addr_len

rmap_build_hdr(pkt) ==
  pkt.path
    \o <<pkt.dst, RMAP_PROTOCOL_ID, instruction(pkt), pkt.key>>
    \o pkt.rpath
    \o <<pkt.src>> \o BigEndian(pkt.tr_id, 2)
    \o (IF pkt.cmd_resp = 1 THEN <<0>> \o BigEndian(pkt.addr, 4)
        ELSE IF pkt.cmd \in Writes THEN <<>> ELSE <<0>>)
    \o (IF pkt.cmd_resp = 0 /\ pkt.cmd \in Writes THEN <<>>
        ELSE BigEndian(pkt.data_len, 3))

rdcu_gen_cmd(conf, trans_id, cmd, addr, size) ==
  rmap_build_hdr(Filled(conf, trans_id, cmd, addr, size))

(* The commands rdcu_package knows to have a data CRC:                     *)
(* RMAP_WRITE_ADDR_SINGLE_REPLY is not among them.                         *)
HasDataCrc ==
  ({RMAP_READ_MODIFY_WRITE_ADDR_INC} \cup Writes)
    \ {RMAP_WRITE_ADDR_SINGLE_REPLY}

(* Mutant: the header CRC covers the path too.                             *)
rdcu_package_PathInCrc(cmd, non_crc_bytes, data) ==
  cmd \o <<rmap_crc8(cmd)>>
    \o (IF data # <<>> THEN data \o <<rmap_crc8(data)>> ELSE <<>>)

(* What goes over the link for a header and its data: both CRCs added, the *)
(* header's without the path, which the routers remove.                    *)
rdcu_package(cmd, non_crc_bytes, data) ==
  LET code == (cmd[non_crc_bytes + 3] \div 4) % 16
  IN cmd \o <<rmap_crc8(SubSeq(cmd, non_crc_bytes + 1, Len(cmd)))>>
       \o (IF data # <<>> THEN data \o <<rmap_crc8(data)>>
           ELSE IF code \in HasDataCrc THEN <<0>> ELSE <<>>)

(* A received buffer as a packet, or NULL.  The header CRC is read from an *)
(* offset that is right for read replies only, and never looked at.        *)
rmap_pkt_from_buffer(buf) ==
  LET At(i, w) == SubSeq(buf, i + 1, i + w)
      cmd      == (buf[3] \div 4) % 16
      cmd_resp == (buf[3] \div 64) % 2
      hdr_size == rmap_get_min_hdr_size(cmd, cmd_resp)
      rpath    == IF cmd_resp = 1 THEN 4 * (buf[3] % 4) ELSE 0
      n        == IF cmd_resp = 1 THEN rpath + 4 ELSE 0
      data_len == IF cmd_resp = 0 /\ cmd \in Writes THEN 0
                  ELSE Number(At(8 + n, 3))
      end      == 12 + n + data_len
  IN IF \/ Len(buf) < 7
        \/ buf[2] # RMAP_PROTOCOL_ID
        \/ hdr_size < 0
        \/ Len(buf) < hdr_size + rpath
        \/ data_len # 0 /\ Len(buf) < end + 1
     THEN NULL
     ELSE [dst |-> buf[1], cmd |-> cmd, cmd_resp |-> cmd_resp,
           status |-> buf[4], src |-> buf[5 + rpath],
           tr_id |-> Number(At(5 + rpath, 2)), data_len |-> data_len,
           data |-> At(12 + n, data_len),
           data_crc |-> IF data_len = 0 THEN 0 ELSE buf[end + 1]]
=============================================================================
