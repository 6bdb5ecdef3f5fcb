---------------------------- MODULE MCKbusDetect ----------------------------
(* Racks for TLC: bit offsets across a byte boundary, every kind of terminal. *)
EXTENDS KbusDetect

Plug(name, in, inSize, out, outSize, channels) ==
  [name |-> name, in |-> in, inSize |-> inSize, out |-> out, outSize |-> outSize,
   channels |-> channels]

RacksIPC == {
  <<Plug(482, 0, 96, 0, 96, 2), Plug(459, 96, 32, 0, 0, 2), Plug(484, 128, 96, 96, 64, 2)>>,
  <<Plug(559, 0, 0, 0, 32, 2), Plug(404, 0, 48, 32, 48, 2), Plug(602, 48, 16, 80, 0, 0)>>,
  <<Plug(209, 6, 4, 0, 0, 4), Plug(211, 10, 4, 5, 4, 4), Plug(210, 0, 0, 9, 2, 2)>>,
  <<Plug(511, 0, 0, 16, 32, 2)>>}

Entry(article, format) == <<article, format>>

RacksFBK == {
  <<>>,
  <<Plug(Entry("750-4", "y"), 0, 32, 0, 0, 2), Plug(Entry("750-6", "y"), 32, 48, 0, 48, 3),
    Plug(Entry("750-4xx", "n"), 86, 4, 0, 0, 4)>>,
  <<Plug(Entry("750-511", "y"), 0, 0, 0, 32, 2), Plug(Entry("750-5", "y"), 0, 0, 32, 32, 2),
    Plug(Entry("750-5xx", "n"), 0, 0, 70, 3, 4), Plug(Entry("750-6", "n"), 0, 0, 0, 0, 0)>>}

\* A terminal between two known ones that no branch of WagoFBKManager is about.
RackUnknown ==
  <<Plug(Entry("750-4xx", "n"), 0, 2, 0, 0, 2), Plug(Entry("750-4", "n"), 8, 8, 0, 0, 1),
    Plug(Entry("750-5xx", "n"), 0, 0, 0, 2, 2)>>

RacksOf == [IPC |-> RacksIPC, FBK |-> RacksFBK \cup {RackUnknown}]
=============================================================================
