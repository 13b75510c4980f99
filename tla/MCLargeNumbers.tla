--------------------------- MODULE MCLargeNumbers ---------------------------
(* Limbs of two bits; the right-hand sides reach every carry chain. *)
EXTENDS LargeNumbers, Bitwise

MCBase == 2 ^ LimbBits
MCLimbs == 0 .. (MCBase - 1)
MCPairs == MCLimbs \X MCLimbs
MCShifts == MCLimbs \X (0 .. (LimbBits - 1))

MCAnd == [p \in MCPairs |-> p[1] & p[2]]
MCOr == [p \in MCPairs |-> p[1] | p[2]]
MCXor == [p \in MCPairs |-> p[1] ^^ p[2]]
MCShl == [p \in MCShifts |-> (p[1] * 2 ^ p[2]) % MCBase]
MCShr == [p \in MCShifts |-> p[1] \div 2 ^ p[2]]

MCEdges == {0, 1, MCBase - 1}
MCOperands ==
  {<<<<a, b>>, <<c, d>>>> : a \in MCEdges, b \in MCEdges, c \in {0, MCBase - 1}, d \in {0, 1}}
  \cup {<<<<2, 3>>, <<1, 2>>>>, <<<<1, 1>>, <<1, 1>>>>}
=============================================================================
