------------------------------- MODULE MsrMap -------------------------------
(***************************************************************************)
(* Which accesses to MSRs leave the guest: the Runtime's table of MSR      *)
(* intercepts (Runtime/Intercepts/Msr/MsrIntercept.c), the permission map  *)
(* the DXE driver makes of it, and the processor's lookup in that map.     *)
(* An MSR's number is a pair of its upper and lower 16 bits.               *)
(***************************************************************************)
EXTENDS Naturals

\* The numbers of 16 bits.
Half == {n \in Nat : n < 65536}
Msr  == Half \X Half

PLATFORM_ID       == <<0, 23>>    \* 17H
CORE_THREAD_COUNT == <<0, 53>>    \* 35H
BIOS_SIGN_ID      == <<0, 139>>   \* 8BH
MISC_ENABLE       == <<0, 416>>   \* 1A0H
PAT               == <<0, 631>>   \* 277H
X2APIC_VERSION    == <<0, 2051>>  \* 803H

\* mAmdIntelEmuInternalMsrIntercepts; every entry has a Read and a Write handler.
MsrIntercepts == {PAT, MISC_ENABLE, PLATFORM_ID, BIOS_SIGN_ID, CORE_THREAD_COUNT,
                  X2APIC_VERSION}

HiC000 == 49152  \* the upper 16 bits of C0000000H
HiC001 == 49153

\* The MSRs the permission map covers.
Covered(m) == m[1] \in {0, HiC000, HiC001} /\ m[2] < 8192

\* The number among the covered MSRs, numbered continuously.
Rebased(m) == CASE m[1] = 0      -> m[2]
                [] m[1] = HiC000 -> m[2] + 8192
                [] m[1] = HiC001 -> m[2] + 16384

\* Bug: the bit within the byte is taken of the MSR's number.
PmBitsOfNumber(m) ==
  LET offset == (2 * Rebased(m)) \div 8
      bit    == Rebased(m) % 8
  IN  {<<offset, bit>>, <<offset, bit + 1>>}

\* The bits set for m: byte offset and bit, for reads and writes.
PmBits(m) ==
  LET total == 2 * Rebased(m)
  IN  {<<total \div 8, total % 8>>, <<total \div 8, (total % 8) + 1>>}

\* The assertion on the offset.  An intercept of an MSR at C0000000H or above would
\* fail it, although the map has 6 KB; for the table it holds (OffsetsAsserted in
\* EmulationProofs).
OffsetAsserted(m) == (2 * Rebased(m)) \div 8 < 2048

\* InternalInitMsrPm, on a zeroed map.  MSRs the map does not cover are skipped.
MsrPm == UNION {PmBits(m) : m \in {n \in MsrIntercepts : Covered(n)}}

\* The processor: one vector of 2 KB for each range, four MSRs in each byte.
\* Accesses to other MSRs are always intercepted.
Intercepted(m, write) ==
  Covered(m) =>
    LET vector == CASE m[1] = 0 -> 0 [] m[1] = HiC000 -> 2048 [] m[1] = HiC001 -> 4096
    IN  <<vector + m[2] \div 4, 2 * (m[2] % 4) + IF write THEN 1 ELSE 0>> \in MsrPm
=============================================================================
