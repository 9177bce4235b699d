SPECIFICATION LiveSpec
CONSTANTS
    Stage = {"Build"}
    Poller = {exec, task}
    Silent = {task}
    Completer = {hook}
INVARIANTS TypeOK NoStageLeftOpen Truthful
PROPERTY StagesClose
