---------------------------- MODULE MCAgreement ----------------------------
\* The accounts of MCCollectors without those about which the code and the
\* reference disagree.
EXTENDS MCCollectors, Agreement
=============================================================================
