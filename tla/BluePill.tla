------------------------------ MODULE BluePill ------------------------------
(***************************************************************************)
(* The Blue Pill application on the kernel: RealMain, which starts task1   *)
(* and task2 and spins, task1, which blinks, task2, which waits for        *)
(* samples and shows them column by column, and the ADC's callback, which  *)
(* releases temperatureValueSemaphore from an interrupt.                   *)
(*                                                                         *)
(* The code is abstracted to its kernel calls; what is sampled is the      *)
(* subject of Acquisition.  The scheduler's ctor has run: see the README   *)
(* for a tick before that.                                                 *)
(***************************************************************************)
EXTENDS Semaphore

CONSTANTS
    task1, task2,
    temperatureValueSemaphore,
    BlinkDelay, ColumnDelay,    \* ticks, 1000 and 5 in the code
    Columns                     \* of the display, 6 in the code

ASSUME BluePillAssumption ==
    /\ task1 # task2 /\ Task = {task1, task2}
    /\ BlockList = {temperatureValueSemaphore}
    /\ {BlinkDelay, ColumnDelay} \subseteq Delays /\ TickModulus # 1
    /\ {0, 1} \subseteq PriorityRange
    /\ 1 \in ReleaseCounts
    /\ Columns \in Nat

VARIABLES
    booted,     \* the statements RealMain has executed
    led,        \* the pin task1 toggles
    sampling,   \* task2 has started the timer and the ADC's DMA
    col         \* task2: the column it shows; Columns while it acquires

appVars == <<booted, led, sampling, col>>
allBluePillVars == <<allVars, appVars>>

BluePillInit ==
    /\ SemaphoreInit
    /\ booted = 0 /\ led = FALSE /\ sampling = FALSE /\ col = Columns

-----------------------------------------------------------------------------
\* RealMain after the scheduler's ctor; then it spins.
RealMain ==
    /\ NotReleasing
    /\ current = Main
    /\ \/ booted = 0 /\ SetPriority(task1, 1)
       \/ booted = 1 /\ SetPriority(task2, 0)
       \/ booted = 2 /\ Start(task1)
       \/ booted = 3 /\ Start(task2)
    /\ booted' = booted + 1
    /\ UNCHANGED <<semaphoreVars, led, sampling, col>>

\* task1Handler: toggle the pin, then DelayTask.
Task1 ==
    /\ NotReleasing
    /\ Delay(task1, BlinkDelay)
    /\ led' = ~led
    /\ UNCHANGED <<semaphoreVars, booted, sampling, col>>

\* task2Handler: HAL_TIM_Base_Start_IT and HAL_ADC_Start_DMA.
Task2Start ==
    /\ NotReleasing
    /\ InThread(task2) /\ ~sampling
    /\ sampling' = TRUE
    /\ UNCHANGED <<allVars, booted, led, col>>

\* semaphore.Acquire(), up to its return if it need not block.
Task2Acquire ==
    /\ sampling /\ col = Columns
    /\ Acquire(task2, temperatureValueSemaphore)
    /\ col' = IF frame'[task2] = "blocked" THEN Columns ELSE 0
    /\ UNCHANGED <<booted, led, sampling>>

Task2Acquired ==
    /\ AcquireReturn(task2)
    /\ col' = 0
    /\ UNCHANGED <<booted, led, sampling>>

\* One turn of the loop over the columns; the last turn only goes on.
Task2Column ==
    /\ NotReleasing
    /\ sampling /\ col < Columns
    /\ Delay(task2, ColumnDelay)
    /\ col' = col + 1
    /\ UNCHANGED <<semaphoreVars, booted, led, sampling>>

Task2 == Task2Start \/ Task2Acquire \/ Task2Acquired \/ Task2Column

\* HAL_ADC_ConvCpltCallback, from the DMA interrupt.
ConvCpltCallback ==
    /\ sampling
    /\ NoException
    /\ Release(temperatureValueSemaphore, 1)
    /\ UNCHANGED appVars

Releasing ==
    InternalRelease(temperatureValueSemaphore) /\ UNCHANGED appVars

\* SysTick, which is on since HAL_Init and so expires in RealMain as well, and
\* PendSV.
Handler ==
    /\ NotReleasing
    /\ Tick \/ TickVisit \/ SwitchContext
    /\ UNCHANGED <<semaphoreVars, appVars>>

BluePillNext ==
    RealMain \/ Task1 \/ Task2 \/ ConvCpltCallback \/ Releasing \/ Handler

BluePillSpec == BluePillInit /\ [][BluePillNext]_allBluePillVars

\* The core goes on, SysTick and the DMA interrupt come again and again, and
\* they leave the running thread time to go on: no thread here loops without
\* a kernel call.
BluePillFairness ==
    /\ WF_allBluePillVars(RealMain)
    /\ WF_allBluePillVars(Releasing)
    /\ WF_allBluePillVars(Handler /\ TickVisit)
    /\ WF_allBluePillVars(Handler /\ SwitchContext)
    /\ SF_allBluePillVars(Handler /\ Tick)
    /\ SF_allBluePillVars(ConvCpltCallback)
    /\ SF_allBluePillVars(Task1)
    /\ SF_allBluePillVars(Task2)

FairBluePillSpec == BluePillSpec /\ BluePillFairness

-----------------------------------------------------------------------------
Blinks == []<>led /\ []<>~led

ShowsSamples == []<>(col = Columns) /\ []<>(col = 0)

\* Nothing RealMain does gives the core away, although it starts tasks more
\* urgent than what follows: it is left at the first tick and not before, so
\* both tasks are started unless that tick falls into RealMain
\* (RealMain, Scheduler::Add, Scheduler::Tick).
RealMainIsLeftByATick ==
    [][current = Main /\ current' # Main => systicks = 1]_allBluePillVars

\* A tick that falls into RealMain ends it, for MainThread is on no list.  The
\* tasks it did start by then go on for ever all the same: the more urgent
\* task2 waits often and long enough for task1, and if it counts on samples
\* being reported, gets them (task1Handler, task2Handler,
\* HAL_ADC_ConvCpltCallback).
StartedTasksRun ==
    /\ [](Started(task1) => Blinks)
    /\ [](Started(task2) => ShowsSamples)
=============================================================================
