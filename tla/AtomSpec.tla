------------------------------ MODULE AtomSpec ------------------------------
(***************************************************************************)
(* What com.ahungry.conc.atom promises the Janet threads of one process: a *)
(* map of boxes shared by all of them, on which make, get and update each  *)
(* take effect at one instant between their call and their return.  update *)
(* replaces a box by the function of what it holds at that very instant,   *)
(* so no update is lost; an update whose function raises changes nothing.  *)
(***************************************************************************)
CONSTANTS Threads,   \* the Janet threads of the process
          Keys,      \* marshalled keys
          Values,    \* marshalled values
          Calls,     \* the calls the threads make, see Pobox
          Missing,   \* the content of a box nobody made; nil to the caller
          True,      \* what make and update return
          Raise,     \* the answer of a call that ended with a Janet error
          NoCall,    \* a thread that has not called yet
          BoxesAtStart  \* the boxes made before the threads started

VARIABLES boxes,     \* [Keys -> Values \cup {Missing}]
          phase,     \* per thread: "idle", "pending" or "done"
          acall,     \* per thread: its latest call
          answer     \* per thread: the answer of its latest finished call

avars == <<boxes, phase, acall, answer>>

AInit == /\ boxes = BoxesAtStart
         /\ phase = [t \in Threads |-> "idle"]
         /\ acall = [t \in Threads |-> NoCall]
         /\ answer = [t \in Threads |-> Missing]

AInvoke(t, c) == /\ phase[t] = "idle"
                 /\ phase' = [phase EXCEPT ![t] = "pending"]
                 /\ acall' = [acall EXCEPT ![t] = c]
                 /\ UNCHANGED <<boxes, answer>>

\* The call takes effect: the answer a is fixed and box k becomes b.
AEffect(t, b, a) == /\ phase' = [phase EXCEPT ![t] = "done"]
                    /\ boxes' = [boxes EXCEPT ![acall[t].k] = b]
                    /\ answer' = [answer EXCEPT ![t] = a]
                    /\ UNCHANGED acall

AMake(t) == /\ phase[t] = "pending"
            /\ acall[t].op = "make"
            /\ AEffect(t, acall[t].v, True)

AGet(t) == /\ phase[t] = "pending"
           /\ acall[t].op = "get"
           /\ AEffect(t, boxes[acall[t].k], boxes[acall[t].k])

AUpdate(t) == LET now == boxes[acall[t].k] IN
              /\ phase[t] = "pending"
              /\ acall[t].op = "update"
              /\ now \in Values
              /\ \/ /\ acall[t].f[now] \in Values
                    /\ AEffect(t, acall[t].f[now], True)
                 \/ /\ acall[t].f[now] = Raise
                    /\ AEffect(t, now, Raise)

AReturn(t) == /\ phase[t] = "done"
              /\ phase' = [phase EXCEPT ![t] = "idle"]
              /\ UNCHANGED <<boxes, acall, answer>>

ANext == \E t \in Threads : \/ \E c \in Calls : AInvoke(t, c)
                            \/ AMake(t)
                            \/ AGet(t)
                            \/ AUpdate(t)
                            \/ AReturn(t)

ASpec == AInit /\ [][ANext]_avars
=============================================================================
