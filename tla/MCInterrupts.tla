---------------------------- MODULE MCInterrupts ----------------------------
(* Instances of Interrupts for TLC.                                        *)
EXTENDS Interrupts, TLC

CONSTANTS c1, c2, c3

Cap(i, n) == [id |-> i, size |-> n]

\* Options as they are when none is given.
Machine(msis, namespaces, caps) ==
  [msis |-> msis, namespaces |-> namespaces, caps |-> caps,
   use_msis |-> TRUE, use_msixs |-> TRUE]

MsixOnly(n) == <<Cap("msix", n)>>
Both(m, n)  == <<Cap("msi", m), Cap("other", 1), Cap("msix", n)>>

\* Two controllers with MSI-X, one of which has MSI too, and one with its interrupt
\* line, MSIs for everybody.
Mixed == Machine(6, 2, c1 :> MsixOnly(3) @@ c2 :> Both(2, 3) @@ c3 :> <<>>)

\* One with MSI-X and one with its interrupt line, fewer MSIs than namespaces.
Scarce == Machine(2, 3, c1 :> MsixOnly(4) @@ c2 :> <<Cap("other", 1)>>)

\* One with four messages in one block, and one namespace.
Block == Machine(4, 1, c1 :> <<Cap("msi", 4)>>)

\* Options that disable a kind, or both.
Options ==
  {[Machine(4, 1, c1 :> Both(4, 2)) EXCEPT !.use_msixs = FALSE],
   [Machine(4, 2, c1 :> Both(4, 3)) EXCEPT !.use_msis = FALSE],
   [Machine(4, 2, c1 :> Both(4, 3)) EXCEPT !.use_msis = FALSE, !.use_msixs = FALSE],
   Machine(0, 2, c1 :> Both(4, 3))}

ServedMachines == {Mixed, Scarce, Block} \union Options

\* Two with MSI-X, fewer MSIs than queues.
FallbackMachines == {Machine(3, 2, c1 :> MsixOnly(3) @@ c2 :> MsixOnly(3))}
LegacyMachines   == {Machine(1, 1, c1 :> MsixOnly(3) @@ c2 :> MsixOnly(3))}

\* One with a single message.
PlainMachines == {Machine(2, 1, c1 :> <<Cap("msi", 1)>>)}

=============================================================================
