-------------------------- MODULE MCPacketProcessor --------------------------
(* Instances of PacketProcessor for TLC: which packets the host submits.    *)
EXTENDS PacketProcessorProperties

Shape(t, b, s, d) == [type |-> t, barrier |-> b, signal |-> s, dep |-> d]

SignalledKernel == Shape("KERNEL_DISPATCH", FALSE, TRUE, FALSE)
SilentKernel    == Shape("KERNEL_DISPATCH", FALSE, FALSE, FALSE)
FencedKernel    == Shape("KERNEL_DISPATCH", TRUE, TRUE, FALSE)
BarrierAnd      == Shape("BARRIER_AND", FALSE, FALSE, TRUE)
BarrierOr       == Shape("BARRIER_OR", FALSE, FALSE, TRUE)
SignalledBarrier == Shape("BARRIER_AND", FALSE, TRUE, FALSE)
Agent           == Shape("AGENT_DISPATCH", FALSE, FALSE, FALSE)

SignalledKernels == {SignalledKernel}
Kernels == {SignalledKernel, SilentKernel}
FencedKernels == {SignalledKernel, FencedKernel}
KernelsAndSignalledBarriers == {SilentKernel, SignalledBarrier}
EveryShape == {SignalledKernel, FencedKernel, SignalledBarrier, BarrierAnd, BarrierOr, Agent}

OneCore == {0}
TwoCores == {0, 1}
NoAdmin == {}
AddCore == {"add"}
=============================================================================
