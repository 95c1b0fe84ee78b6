--------------------------- MODULE MCFrameParser ---------------------------
EXTENDS FrameParser
MCTypes == {"BT_MCU", "BT_TUYA_MCU"}
MCMcuHead == <<2, 4>>
MCTuyaHead == <<1, 2, 0>>
\* The bodies look like the beginning of a head.
MCMcuBodies == {<<2>>, <<3>>}
MCTuyaBodies == {<<1, 0, 0>>, <<3, 0, 1, 1>>}
MCNoise == {1}

Settings(speeds, flows, databits, parities, stopbits, flags) ==
    [speed : speeds, flow : flows, databits : databits, parity : parities,
     stopbits : stopbits, flags : flags]

\* What UART0_Set leaves alone: none of it, each flag, and the two that alter the
\* input together.
MCKept == { {f} : f \in LeftAlone } \cup {{}, {"IUCLC", "IEXTEN"}}

\* Each of these with and without all that it clears, and two values of every
\* other setting.
MCLeftBehind ==
    Settings({9600, 115200}, {"none", "hardware"}, {7, 8}, {"none", "even"}, 1..2,
             { kept \cup cleared : kept \in MCKept, cleared \in {{}, Cleared} })
=============================================================================
