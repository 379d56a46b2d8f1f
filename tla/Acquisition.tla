----------------------------- MODULE Acquisition -----------------------------
(***************************************************************************)
(* How samples reach task2 of the Blue Pill application: the ADC, started  *)
(* by timer 3, the DMA channel that stores Length samples in one of two    *)
(* buffers, the HAL's handling of its interrupts, the callback that        *)
(* restarts the channel on the other buffer and releases the semaphore,    *)
(* and task2, which averages the buffer readIndex names.                   *)
(*                                                                         *)
(* A handler is one step.  The semaphore is its counter (see Semaphore);   *)
(* the ADC is enabled, and its state only matters once it is in error.     *)
(***************************************************************************)
EXTENDS Naturals

CONSTANTS
    Length,         \* samples per transfer, 10 in the code
    MaxCounter      \* of the semaphore, 10 in the code

ASSUME AcquisitionAssumption ==
    /\ Length \in Nat \ {0, 1}
    /\ MaxCounter \in Nat \ {0}

Buffer == {0, 1}

VARIABLES
    ping, readIndex,    \* of main.cpp
    counter,            \* of temperatureValueSemaphore
    pc, first, last,    \* task2: where it is, the buffers its iterators are in
    state, lock,        \* of the DMA handle hdma_adc1
    failed,             \* HAL_ADC_STATE_ERROR_DMA
    target, left,       \* CMAR and CNDTR of the DMA channel
    flags, enabled,     \* its interrupt flags, and those that interrupt
    whole,              \* the buffers that hold the samples of one transfer
    swapped             \* a transfer completed while task2 was averaging
                        \* (no code reads these two)

app == <<ping, readIndex, counter>>
task2 == <<pc, first, last>>
hal == <<state, lock, failed>>
channel == <<target, left, flags, enabled>>
notes == <<whole, swapped>>
acquisitionVars == <<app, task2, hal, channel, notes>>

AcquisitionInit ==
    /\ ping = 0 /\ readIndex = 0 /\ counter = 0
    /\ pc = "start" /\ first = 0 /\ last = 0
    /\ state = "READY" /\ lock = FALSE /\ failed = FALSE
    /\ target = 0 /\ left = 0 /\ flags = {} /\ enabled = {}
    /\ whole = {} /\ swapped = FALSE

-----------------------------------------------------------------------------
\* HAL_DMA_Start_IT when it does start: the lock is kept until the transfer's
\* interrupt; the half transfer interrupt is enabled, for the HAL sets a
\* callback for it.
Started(b) ==
    /\ state' = "BUSY" /\ lock' = TRUE
    /\ target' = b /\ left' = Length
    /\ flags' = {} /\ enabled' = {"HT", "TC", "TE"}

\* HAL_ADC_Start_DMA, called with the handle in the state s and lock l; it
\* returns HAL_OK whether HAL_DMA_Start_IT returns HAL_BUSY or not.
StartDma(b, s, l, f, e) ==
    \/ s = "READY" /\ ~l /\ Started(b)
    \/ /\ s # "READY" \/ l
       /\ state' = s /\ lock' = l
       /\ flags' = f /\ enabled' = e
       /\ UNCHANGED <<target, left>>

\* Semaphore::Release.
Release == counter' = IF counter = MaxCounter THEN counter ELSE counter + 1

\* Mutants of the callback: the index is read after the buffers are swapped;
\* the handle is still locked; the semaphore is not released.
ConvCpltCallbackSwapsFirst ==
    /\ ping' = 1 - ping
    /\ readIndex' = ping'
    /\ StartDma(ping', "READY", FALSE, flags \ {"TC"}, enabled \ {"TC", "TE"})
    /\ Release

ConvCpltCallbackLocked ==
    /\ readIndex' = ping
    /\ ping' = 1 - ping
    /\ StartDma(ping', "READY", lock, flags \ {"TC"}, enabled \ {"TC", "TE"})
    /\ Release

ConvCpltCallbackSilent ==
    /\ readIndex' = ping
    /\ ping' = 1 - ping
    /\ StartDma(ping', "READY", FALSE, flags \ {"TC"}, enabled \ {"TC", "TE"})
    /\ UNCHANGED counter

\* HAL_ADC_ConvCpltCallback.
ConvCpltCallback ==
    /\ readIndex' = ping
    /\ ping' = 1 - ping
    /\ StartDma(ping', "READY", FALSE, flags \ {"TC"}, enabled \ {"TC", "TE"})
    /\ Release

\* HAL_DMA_IRQHandler serves one flag, the half transfer first; another one
\* that is set makes the interrupt pending again.
HalfTransferIrq ==
    /\ "HT" \in flags \cap enabled
    /\ flags' = flags \ {"HT"} /\ enabled' = enabled \ {"HT"}
    /\ UNCHANGED <<app, task2, hal, target, left, notes>>

\* The handle is ready and unlocked when ADC_DMAConvCplt calls the callback.
\* In the error state it would not; but then the channel is not started again.
TransferCompleteIrq ==
    /\ "TC" \in flags \cap enabled /\ "HT" \notin flags \cap enabled
    /\ ~failed /\ ConvCpltCallback
    /\ swapped' = (pc \in {"end", "sum"} \/ swapped)
    /\ UNCHANGED <<task2, failed, whole>>

\* ADC_DMAError; HAL_ADC_ErrorCallback is empty.
TransferErrorIrq ==
    /\ "TE" \in flags \cap enabled /\ flags \cap enabled \cap {"HT", "TC"} = {}
    /\ state' = "READY" /\ lock' = FALSE /\ failed' = TRUE
    /\ flags' = {} /\ enabled' = {}
    /\ UNCHANGED <<app, task2, target, left, notes>>

-----------------------------------------------------------------------------
\* The channel stores a sample.
Sample ==
    /\ state = "BUSY" /\ left > 0 /\ "TE" \notin flags
    /\ left' = left - 1
    /\ flags' = flags \cup (IF left' = Length \div 2 THEN {"HT"} ELSE {})
                      \cup (IF left' = 0 THEN {"TC"} ELSE {})
    /\ whole' = IF left' = 0 THEN whole \cup {target} ELSE whole \ {target}
    /\ UNCHANGED <<app, task2, hal, target, enabled, swapped>>

BusError ==
    /\ state = "BUSY" /\ left > 0 /\ "TE" \notin flags
    /\ flags' = flags \cup {"TE"}
    /\ UNCHANGED <<app, task2, hal, target, left, enabled, notes>>

-----------------------------------------------------------------------------
\* task2Handler: HAL_TIM_Base_Start_IT and HAL_ADC_Start_DMA.
Task2Start ==
    /\ pc = "start" /\ pc' = "acquire"
    /\ StartDma(ping, state, lock, flags, enabled)
    /\ UNCHANGED <<app, first, last, failed, notes>>

Task2Acquire ==
    /\ pc = "acquire" /\ pc' = "begin"
    /\ counter > 0 /\ counter' = counter - 1
    /\ swapped' = FALSE
    /\ UNCHANGED <<ping, readIndex, first, last, hal, channel, whole>>

\* readIndex is volatile: data[readIndex].begin() and .end() read it again.
Task2Begin ==
    /\ pc = "begin" /\ pc' = "end"
    /\ first' = readIndex
    /\ UNCHANGED <<app, last, hal, channel, notes>>

Task2End ==
    /\ pc = "end" /\ pc' = "sum"
    /\ last' = readIndex
    /\ UNCHANGED <<app, first, hal, channel, notes>>

\* accumulate has read the last sample; then the columns of the display, each
\* but the seventh with a delay.
Task2Show ==
    \/ /\ pc = "sum" /\ pc' = "show"
       /\ UNCHANGED <<app, first, last, hal, channel, notes>>
    \/ /\ pc = "show" /\ pc' = "acquire"
       /\ UNCHANGED <<app, first, last, hal, channel, notes>>

Task2 == Task2Start \/ Task2Acquire \/ Task2Begin \/ Task2End \/ Task2Show

Irq == HalfTransferIrq \/ TransferCompleteIrq \/ TransferErrorIrq

AcquisitionNext == Task2 \/ Irq \/ Sample \/ BusError

AcquisitionSpec == AcquisitionInit /\ [][AcquisitionNext]_acquisitionVars

\* The timer keeps triggering conversions, the interrupt is taken, and task2,
\* the most urgent task, runs when it has something to do.
AcquisitionFairness ==
    /\ WF_acquisitionVars(Task2)
    /\ WF_acquisitionVars(Irq)
    /\ WF_acquisitionVars(Sample)

FairAcquisitionSpec == AcquisitionSpec /\ AcquisitionFairness

-----------------------------------------------------------------------------
\* The type invariant; the semaphore's counter stays within its maximum.
TypeOK ==
    /\ ping \in Buffer /\ readIndex \in Buffer /\ counter \in 0 .. MaxCounter
    /\ pc \in {"start", "acquire", "begin", "end", "sum", "show"}
    /\ first \in Buffer /\ last \in Buffer
    /\ state \in {"READY", "BUSY"} /\ lock \in BOOLEAN /\ failed \in BOOLEAN
    /\ target \in Buffer /\ left \in 0 .. Length
    /\ flags \subseteq {"HT", "TC", "TE"} /\ enabled \subseteq {"HT", "TC", "TE"}
    /\ whole \subseteq Buffer /\ swapped \in BOOLEAN

\* task2 averages the samples of one complete transfer, which the channel is
\* not overwriting, however late it comes and however many transfers it
\* missed; unless one completes after it has begun to read readIndex, for then
\* begin and end may be in different buffers, and the channel soon is in the
\* one it reads (task2Handler, HAL_ADC_ConvCpltCallback).
AverageIsOfOneTransfer ==
    ~swapped /\ pc = "sum" =>
        first = last /\ first \in whole /\ first # target

\* Acquisition never stalls, unless the bus fails: the channel is filling a
\* buffer or an interrupt that will start it again is pending, although its
\* handle stays locked during a transfer and a start that finds it locked is
\* ignored (HAL_DMA_Start_IT, HAL_DMA_IRQHandler, HAL_ADC_Start_DMA).
AcquisitionGoesOn ==
    pc # "start" /\ ~failed =>
        \/ state = "BUSY" /\ left > 0
        \/ flags \cap enabled # {}

\* The display is updated for ever, unless the bus fails: a task2 that waits is
\* released, one that falls behind and lets the semaphore drop tokens goes on
\* (task2Handler, HAL_ADC_ConvCpltCallback, Semaphore::Release).
DisplayIsUpdated == <>failed \/ []<>(pc = "show")
=============================================================================
