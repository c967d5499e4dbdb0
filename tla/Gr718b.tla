------------------------------- MODULE Gr718b -------------------------------
(***************************************************************************)
(* Configuration of the SpaceWire router: gr718b_rmap.c.  Every function   *)
(* checks its arguments and then makes one read-modify-write of a register *)
(* of the router; it is given here by that access, NULL if the arguments   *)
(* are refused, or "nothing" if the function returns early.                *)
(***************************************************************************)
EXTENDS RdcuRegs

GR718B_PHYS_PORT_END  == 19
GR718B_LOG_ADDR_START == 32

RTPMAP(addr)  == 4 * addr
RTACTRL(addr) == 1024 + 4 * addr
PCTRL(port)   == 2048 + 4 * port

HDRDEL_BIT           == 0
ENABLE_BIT           == 2
LINK_START_BIT       == 1
TIME_CODE_ENABLE_BIT == 5
RUN_CLK_DIV          == 24 .. 31

(* gr718b_verify_port, gr718b_verify_addr, gr718b_verify_port_physical.    *)
PortOk(port)     == port # 0 /\ port <= GR718B_PHYS_PORT_END
AddrOk(addr)     == /\ addr # 0
                    /\ addr > GR718B_PHYS_PORT_END
                         => addr >= GR718B_LOG_ADDR_START
PhysicalOk(addr) == AddrOk(addr) /\ addr <= GR718B_PHYS_PORT_END

(* An access: the bits of mask become those of data.                       *)
Rmw(reg, data, mask) == [reg |-> reg, data |-> data, mask |-> mask]
SetBits(reg, bits)   == Rmw(reg, bits, bits)
ClearBits(reg, bits) == Rmw(reg, {}, bits)

gr718b_set_route_port(addr, port) ==
  IF PortOk(port) /\ AddrOk(addr) THEN SetBits(RTPMAP(addr), {port}) ELSE NULL
gr718b_clear_route_port(addr, port) ==
  IF PortOk(port) /\ AddrOk(addr) THEN ClearBits(RTPMAP(addr), {port}) ELSE NULL

(* The address control of physical ports needs no access.                  *)
AddressControl(addr, access) ==
  IF ~AddrOk(addr) THEN NULL
  ELSE IF addr <= GR718B_PHYS_PORT_END THEN "nothing" ELSE access

gr718b_set_addr_header_deletion(addr) ==
  AddressControl(addr, SetBits(RTACTRL(addr), {HDRDEL_BIT}))
gr718b_clear_addr_header_deletion(addr) ==
  AddressControl(addr, ClearBits(RTACTRL(addr), {HDRDEL_BIT}))
gr718b_set_rtactrl_enabled(addr) ==
  AddressControl(addr, SetBits(RTACTRL(addr), {ENABLE_BIT}))
gr718b_clear_rtactrl_enabled(addr) ==
  AddressControl(addr, ClearBits(RTACTRL(addr), {ENABLE_BIT}))

PortControl(port, access) == IF PhysicalOk(port) THEN access ELSE NULL

(* Mutant: only the bits that are to be 1 are in the mask.                 *)
gr718b_set_rt_clkdiv_NarrowMask(port, clkdiv) ==
  PortControl(port, SetBits(PCTRL(port), {24 + i : i \in Bits(clkdiv)}))

gr718b_set_rt_clkdiv(port, clkdiv) ==
  PortControl(port, Rmw(PCTRL(port), {24 + i : i \in Bits(clkdiv)},
                        RUN_CLK_DIV))

(* Mutant: the bit of the time codes.                                      *)
gr718b_set_link_start_OtherBit(port) ==
  PortControl(port, SetBits(PCTRL(port), {TIME_CODE_ENABLE_BIT}))

gr718b_set_link_start(port) ==
  PortControl(port, SetBits(PCTRL(port), {LINK_START_BIT}))

gr718b_clear_link_start(port) ==
  PortControl(port, ClearBits(PCTRL(port), {LINK_START_BIT}))
gr718b_set_time_code_enable(port) ==
  PortControl(port, SetBits(PCTRL(port), {TIME_CODE_ENABLE_BIT}))
gr718b_clear_time_code_enable(port) ==
  PortControl(port, ClearBits(PCTRL(port), {TIME_CODE_ENABLE_BIT}))

(* gr718b_gen_cmd: path 0 to the configuration port, logical address 0xFE, *)
(* key 0, no return path.                                                  *)
gr718b_gen_cmd(src_tla, trans_id, cmd, addr, size) ==
  rdcu_gen_cmd([dst |-> 254, src |-> src_tla, key |-> 0, dpath |-> <<0>>,
                rpath |-> <<>>], trans_id, cmd, addr, size)

(* What gr718b_rmw_reg puts on the link: data and mask, four bytes each.   *)
gr718b_rmw_reg(src_tla, a) ==
  rdcu_package(gr718b_gen_cmd(src_tla, 0, RMAP_READ_MODIFY_WRITE_ADDR_INC,
                              a.reg, 8),
               1, Word(a.data) \o Word(a.mask))
=============================================================================
